---- MODULE Spec2Model ----
(***************************************************************************)
(* krelinga/video-transcoder: the job submission gatekeeper                *)
(* (Server.CreateTranscode), the status projection                         *)
(* (Server.GetTranscodeStatus), the transcode worker (TranscodeWorker.Work *)
(* with its progress callback, enqueueWebhook and enqueueHeartbeatWebhook),*)
(* the notification delivery worker (WebhookWorker.Work), the loading of   *)
(* the configuration (NewConfigFromEnv), the two transcoders               *)
(* (handbrakeTranscoder.Transcode, ffmpegTranscoder.Transcode), the        *)
(* migration runs (MigrateUp, MigrateDown) and the part of the River queue *)
(* and of the PostgreSQL transactions that these handlers drive.           *)
(*                                                                         *)
(* The database is modelled by its committed rows (river_job,              *)
(* uuid_job_mapping); a transaction in flight keeps its writes in the      *)
(* record of the handler that opened it and applies them at commit.        *)
(* Statements run at READ COMMITTED (the pgx default): a SELECT sees the   *)
(* rows committed at the time it runs.                                     *)
(*                                                                         *)
(* River, as the handlers use it: a job is available, running, retryable,  *)
(* completed or discarded; the executor moves a fetched job to running,    *)
(* calls Work, and on return completes the job (nil) or records the error  *)
(* and makes it retryable, or discarded once max_attempts is used up.      *)
(* river.RecordOutput stores the value in the attempt's work context; it   *)
(* is written to the job row together with the state change that ends the  *)
(* attempt, and by river.JobCompleteTx inside its transaction.             *)
(***************************************************************************)
EXTENDS Integers, Sequences, FiniteSets, TLC

\* ------------------------------------------------------------------ bounds

\* Number of calls clients make to the server.
NumCalls == 2

\* River retries a job up to max_attempts times; its default is larger, the
\* model keeps it small.
MaxAttempts == 2

\* Number of progress ticks one transcode delivers at most.
MaxTicks == 2

\* Seconds by which the clock advances between two observations.
ClockStep == 15

\* ------------------------------------------------------------------ values

\* A nil *string (WebhookURI, HeartbeatWebhookURI, Error).
Nil == "nil"

\* The zero value of a Go string (a field that is never assigned).
Unset == ""

ProfilePreview == "preview"

ProfileFast1080p30 == "fast1080p30"

\* Request bodies the clients send.
RequestBodies ==
  { [uuid |-> "u1", sourcePath |-> "s", destinationPath |-> "d2",
     profile |-> ProfilePreview, webhookUri |-> Nil, webhookToken |-> "T",
     heartbeatWebhookUri |-> Nil],
    [uuid |-> "u2", sourcePath |-> "s", destinationPath |-> "d1",
     profile |-> ProfilePreview, webhookUri |-> "W", webhookToken |-> "T",
     heartbeatWebhookUri |-> "H"],
    [uuid |-> "u2", sourcePath |-> "s", destinationPath |-> "d1",
     profile |-> "bogus", webhookUri |-> Nil, webhookToken |-> "T",
     heartbeatWebhookUri |-> Nil] }

UUIDs == {b.uuid : b \in RequestBodies}

Calls == 1..NumCalls

IsValid_Any(p) == p # Unset

\* Profile.IsValid: the recognized profile set.
IsValid(p) == p = ProfilePreview

\* internal.TranscodeJobStatus; set = FALSE is "no output recorded".
TranscodeJobStatus(p, e) == [set |-> TRUE, progress |-> p, error |-> e]

NoOutput == [set |-> FALSE, progress |-> 0, error |-> Nil]

\* ------------------------------------------------------- NewConfigFromEnv

EnvServerPort == "VT_SERVER_PORT"
EnvDatabaseHost == "VT_DB_HOST"
EnvDatabasePort == "VT_DB_PORT"
EnvDatabaseUser == "VT_DB_USER"
EnvDatabasePassword == "VT_DB_PASSWORD"
EnvDatabaseName == "VT_DB_NAME"

EnvVars ==
  {EnvServerPort, EnvDatabaseHost, EnvDatabasePort, EnvDatabaseUser,
   EnvDatabasePassword, EnvDatabaseName}

ErrPanicEnvNotSet == "environment variable not set"
ErrPanicEnvNotInt == "environment variable is not an integer"

\* A variable of the environment: set or not, and its value as a string of
\* characters.
EnvValue(chars) == [set |-> TRUE, value |-> chars]
NotSet == [set |-> FALSE, value |-> <<>>]

DigitOf ==
  ("0" :> 0) @@ ("1" :> 1) @@ ("2" :> 2) @@ ("3" :> 3) @@ ("4" :> 4) @@
  ("5" :> 5) @@ ("6" :> 6) @@ ("7" :> 7) @@ ("8" :> 8) @@ ("9" :> 9)

RECURSIVE ParseUint(_)
\* The number a string of decimal digits denotes.
ParseUint(s) ==
  IF s = <<>> THEN 0
  ELSE ParseUint(SubSeq(s, 1, Len(s) - 1)) * 10 + DigitOf[s[Len(s)]]

\* strconv.Atoi: an optional sign and at least one decimal digit, nothing
\* else (the strings of the model are too short to overflow an int).
Atoi(s) ==
  LET signed == s # <<>> /\ s[1] \in {"+", "-"}
      digits == IF signed THEN Tail(s) ELSE s
  IN IF digits = <<>> \/ \E i \in 1..Len(digits) : digits[i] \notin DOMAIN DigitOf
     THEN [err |-> TRUE, value |-> 0]
     ELSE [err |-> FALSE,
           value |-> IF signed /\ s[1] = "-" THEN 0 - ParseUint(digits)
                     ELSE ParseUint(digits)]

\* What a call returns or panics with.
Returned(value) == [panic |-> Nil, key |-> Nil, value |-> value]
Panicked(err, key) == [panic |-> err, key |-> key, value |-> 0]

\* mustGetenv: the value of a set variable, a panic for one that is not set.
mustGetenv(env, key) ==
  IF ~env[key].set THEN Panicked(ErrPanicEnvNotSet, key)
  ELSE Returned(env[key].value)

mustGetenvAtoi_ZeroOnError(env, key) ==
  LET valueStr == mustGetenv(env, key) IN
    IF valueStr.panic # Nil THEN valueStr
    ELSE Returned(Atoi(valueStr.value).value)

\* mustGetenvAtoi: the integer of a set variable, a panic for one that is not
\* set or that Atoi rejects.
mustGetenvAtoi(env, key) ==
  LET valueStr == mustGetenv(env, key) IN
    IF valueStr.panic # Nil THEN valueStr
    ELSE IF Atoi(valueStr.value).err THEN Panicked(ErrPanicEnvNotInt, key)
    ELSE Returned(Atoi(valueStr.value).value)

\* The calls of the composite literal, in the order Go evaluates them.
ConfigFields(env) ==
  << mustGetenvAtoi(env, EnvServerPort), mustGetenv(env, EnvDatabaseHost),
     mustGetenvAtoi(env, EnvDatabasePort), mustGetenv(env, EnvDatabaseUser),
     mustGetenv(env, EnvDatabasePassword), mustGetenv(env, EnvDatabaseName) >>

\* NewConfigFromEnv: the first call that panics ends it; otherwise the
\* configuration of the six values.
NewConfigFromEnv(env) ==
  LET f == ConfigFields(env)
      panics == {i \in 1..Len(f) : f[i].panic # Nil}
  IN IF panics # {}
     THEN LET first == CHOOSE i \in panics : \A k \in panics : i <= k
          IN [panic |-> f[first].panic, key |-> f[first].key]
     ELSE [panic |-> Nil, key |-> Nil,
           Server |-> [Port |-> f[1].value],
           Database |-> [Host |-> f[2].value, Port |-> f[3].value,
                         User |-> f[4].value, Password |-> f[5].value,
                         Name |-> f[6].value]]

\* NewConfigFromEnv has not been called.
NotLoaded == [panic |-> Nil, key |-> "not loaded"]

\* The environment of the test of the configuration.
TestEnv ==
  (EnvServerPort :> EnvValue(<<"8", "0">>)) @@
  (EnvDatabaseHost :> EnvValue(<<"h">>)) @@
  (EnvDatabasePort :> EnvValue(<<"5", "4">>)) @@
  (EnvDatabaseUser :> EnvValue(<<"u">>)) @@
  (EnvDatabasePassword :> EnvValue(<<"p">>)) @@
  (EnvDatabaseName :> EnvValue(<<"n">>))

\* ------------------------------------------------------------------ state

VARIABLES
  river_job,         \* committed transcode rows of the queue: job id -> row
  webhook_job,       \* committed webhook rows of the queue, in insertion order
  uuid_job_mapping,  \* committed rows of the mapping table
  job_id_seq,        \* the id sequence of the transcode rows (never rolled back)
  call,              \* the server's calls: position, transaction, response
  w,                 \* the worker's execution of one job (MaxWorkers: 1)
  environ,           \* the environment of the process
  config,            \* what NewConfigFromEnv returned or panicked with
  handbrake,         \* the scan of HandBrakeCLI's output by its transcoder
  ffmpeg,            \* one call of the ffmpeg transcoder's Transcode
  migration          \* the migration runs of the processes and the lock

vars == <<river_job, webhook_job, uuid_job_mapping, job_id_seq, call, w,
          environ, config, handbrake, ffmpeg, migration>>

JobIds == DOMAIN river_job

\* A river_job row.
JobRow(kind, args, maxAttempts) ==
  [kind |-> kind, state |-> "available", args |-> args, output |-> NoOutput,
   errors |-> <<>>, attempt |-> 0, max_attempts |-> maxAttempts]

\* The transcode jobs whose arguments carry the identifier u.
TranscodeJobsOf(u) ==
  {j \in JobIds : river_job[j].args.uuid = u}

MappingRowsOf(u) == {m \in uuid_job_mapping : m.uuid = u}

\* ------------------------------------------------- Server.CreateTranscode

\* No job row: what a handler holds before riverClient.JobGet has returned one.
NoRow ==
  [kind |-> "none", state |-> "none", args |-> [uuid |-> Unset],
   output |-> NoOutput, errors |-> <<>>, attempt |-> 0, max_attempts |-> 0]

\* A request without a body (request.Body == nil).
NilBody ==
  [uuid |-> Unset, sourcePath |-> Unset, destinationPath |-> Unset,
   profile |-> Unset, webhookUri |-> Nil, webhookToken |-> Unset,
   heartbeatWebhookUri |-> Nil]

\* A response of CreateTranscode: the HTTP code, the error code of the body
\* and the error its message carries ("error" for any error but the unique
\* violation); status and progress for 201.
Response(code, tag, cause) ==
  [code |-> code, tag |-> tag, cause |-> cause, status |-> "none", progress |-> 0]

NoResponse == Response(0, "none", "none")

Created == [Response(201, "CREATED", "none") EXCEPT !.status = "pending"]

NoCall ==
  [pc |-> "idle", body |-> NilBody, began |-> FALSE, txJob |-> 0,
   txMap |-> FALSE, resp |-> NoResponse, job |-> NoRow]

\* jobArgs as CreateTranscode builds it: Profile is not among the assigned fields.
JobArgsOf(body) ==
  [uuid |-> body.uuid, sourcePath |-> body.sourcePath,
   destinationPath |-> body.destinationPath, profile |-> Unset,
   webhookURI |-> body.webhookUri, webhookToken |-> body.webhookToken,
   heartbeatWebhookURI |-> body.heartbeatWebhookUri]

MappingRow_ByDestination(args, id) ==
  [uuid |-> args.destinationPath, river_job_id |-> id]

\* The row of INSERT INTO uuid_job_mapping (uuid, river_job_id).
MappingRow(args, id) == [uuid |-> args.uuid, river_job_id |-> id]

\* uuid_job_mapping is keyed on uuid: an insert of a key that a committed row
\* holds is a unique violation.
UniqueViolation(u) == MappingRowsOf(u) # {}

\* An insert of a key that another transaction has inserted and not yet
\* committed waits for that transaction to end.
KeyLocked(c, u) ==
  \E d \in Calls : d # c /\ call[d].txMap
                   /\ MappingRow(JobArgsOf(call[d].body), call[d].txJob).uuid = u

\* The handler returns: the deferred tx.Rollback drops the uncommitted writes.
Return(c, resp) ==
  call' = [call EXCEPT ![c].pc = "done", ![c].txJob = 0, ![c].txMap = FALSE,
                       ![c].resp = resp]

\* Body and profile validation, then pool.Begin.
CreateTranscode(c) ==
  /\ call[c].pc = "idle"
  /\ \A d \in Calls : d < c => call[d].pc # "idle"
  /\ \E body \in RequestBodies \cup {NilBody} :
       \/ /\ body = NilBody
          /\ Return(c, Response(400, "INVALID_REQUEST", "none"))
       \/ /\ body # NilBody
          /\ ~IsValid(body.profile)
          /\ call' = [call EXCEPT ![c].pc = "done", ![c].body = body,
                        ![c].resp = Response(400, "INVALID_PROFILE", "none")]
       \/ /\ body # NilBody
          /\ IsValid(body.profile)
          /\ \/ call' = [call EXCEPT ![c].pc = "begun", ![c].body = body,
                                     ![c].began = TRUE]
             \/ call' = [call EXCEPT ![c].pc = "done", ![c].body = body,
                           ![c].resp = Response(500, "INTERNAL_ERROR", "error")]
  /\ UNCHANGED <<river_job, webhook_job, uuid_job_mapping, job_id_seq, w, environ, config, handbrake, ffmpeg, migration>>

CheckExisting_Unchecked(c) ==
  /\ call[c].pc = "begun"
  /\ \/ call' = [call EXCEPT ![c].pc = "checked"]
     \/ Return(c, Response(500, "INTERNAL_ERROR", "error"))
  /\ UNCHANGED <<river_job, webhook_job, uuid_job_mapping, job_id_seq, w, environ, config, handbrake, ffmpeg, migration>>

\* SELECT river_job_id FROM uuid_job_mapping WHERE uuid = $1.
CheckExisting(c) ==
  /\ call[c].pc = "begun"
  /\ \/ /\ MappingRowsOf(JobArgsOf(call[c].body).uuid) # {}
        /\ Return(c, Response(409, "DUPLICATE_UUID", "none"))
     \/ /\ MappingRowsOf(JobArgsOf(call[c].body).uuid) = {}
        /\ call' = [call EXCEPT ![c].pc = "checked"]
     \/ Return(c, Response(500, "INTERNAL_ERROR", "error"))
  /\ UNCHANGED <<river_job, webhook_job, uuid_job_mapping, job_id_seq, w, environ, config, handbrake, ffmpeg, migration>>

\* riverClient.InsertTx(ctx, tx, jobArgs, nil).
InsertJob(c) ==
  /\ call[c].pc = "checked"
  /\ \/ /\ call' = [call EXCEPT ![c].pc = "jobInserted", ![c].txJob = job_id_seq + 1]
        /\ job_id_seq' = job_id_seq + 1
     \/ /\ Return(c, Response(500, "INTERNAL_ERROR", "error"))
        /\ UNCHANGED job_id_seq
  /\ UNCHANGED <<river_job, webhook_job, uuid_job_mapping, w, environ, config, handbrake, ffmpeg, migration>>

\* INSERT INTO uuid_job_mapping (uuid, river_job_id) VALUES ($1, $2).
InsertMapping(c) ==
  LET row == MappingRow(JobArgsOf(call[c].body), call[c].txJob) IN
  /\ call[c].pc = "jobInserted"
  /\ ~KeyLocked(c, row.uuid)
  /\ \/ /\ UniqueViolation(row.uuid)
        /\ Return(c, Response(500, "INTERNAL_ERROR", "duplicate key"))
     \/ /\ ~UniqueViolation(row.uuid)
        /\ call' = [call EXCEPT ![c].pc = "mappingInserted", ![c].txMap = TRUE]
     \/ Return(c, Response(500, "INTERNAL_ERROR", "error"))
  /\ UNCHANGED <<river_job, webhook_job, uuid_job_mapping, job_id_seq, w, environ, config, handbrake, ffmpeg, migration>>

Commit_JobOutsideTx(c) ==
  LET args == JobArgsOf(call[c].body) IN
  /\ call[c].pc = "mappingInserted"
  /\ river_job' = river_job @@
                    (call[c].txJob :> JobRow("transcode", args, MaxAttempts))
  /\ \/ /\ uuid_job_mapping' = uuid_job_mapping \cup {MappingRow(args, call[c].txJob)}
        /\ Return(c, Created)
     \/ /\ Return(c, Response(500, "INTERNAL_ERROR", "error"))
        /\ UNCHANGED uuid_job_mapping
  /\ UNCHANGED <<webhook_job, job_id_seq, w, environ, config, handbrake, ffmpeg, migration>>

Commit_MappingOutsideTx(c) ==
  LET args == JobArgsOf(call[c].body) IN
  /\ call[c].pc = "mappingInserted"
  /\ uuid_job_mapping' = uuid_job_mapping \cup {MappingRow(args, call[c].txJob)}
  /\ \/ /\ river_job' = river_job @@
                          (call[c].txJob :> JobRow("transcode", args, MaxAttempts))
        /\ Return(c, Created)
     \/ /\ Return(c, Response(500, "INTERNAL_ERROR", "error"))
        /\ UNCHANGED river_job
  /\ UNCHANGED <<webhook_job, job_id_seq, w, environ, config, handbrake, ffmpeg, migration>>

\* tx.Commit, then the 201 response.
Commit(c) ==
  LET args == JobArgsOf(call[c].body) IN
  /\ call[c].pc = "mappingInserted"
  /\ \/ /\ river_job' = river_job @@
                          (call[c].txJob :> JobRow("transcode", args, MaxAttempts))
        /\ uuid_job_mapping' = uuid_job_mapping \cup {MappingRow(args, call[c].txJob)}
        /\ Return(c, Created)
     \/ /\ Return(c, Response(500, "INTERNAL_ERROR", "error"))
        /\ UNCHANGED <<river_job, uuid_job_mapping>>
  /\ UNCHANGED <<webhook_job, job_id_seq, w, environ, config, handbrake, ffmpeg, migration>>

\* --------------------------------------------- Server.GetTranscodeStatus

mapRiverStateToTranscodeStatus_CancelledPending(state) ==
  CASE state \in {"available", "scheduled", "retryable", "pending"} -> "pending"
    [] state = "running" -> "running"
    [] state = "completed" -> "completed"
    [] state = "discarded" -> "failed"
    [] OTHER -> "pending"

\* The switch over rivertype.JobState, with its default.
mapRiverStateToTranscodeStatus(state) ==
  CASE state \in {"available", "scheduled", "retryable", "pending"} -> "pending"
    [] state = "running" -> "running"
    [] state = "completed" -> "completed"
    [] state \in {"discarded", "cancelled"} -> "failed"
    [] OTHER -> "pending"

NotFound == [code |-> 404]

StatusOf_AttemptErrorAlways(u, job) ==
  LET jobStatus == job.output
      status == mapRiverStateToTranscodeStatus(job.state)
      jobError == IF jobStatus.error # Nil THEN jobStatus.error
                  ELSE IF Len(job.errors) > 0
                       THEN job.errors[Len(job.errors)]
                       ELSE Nil
  IN [code |-> 200, uuid |-> u, status |-> status,
      sourcePath |-> job.args.sourcePath,
      destinationPath |-> job.args.destinationPath,
      progress |-> jobStatus.progress, error |-> jobError]

\* The 200 response for the job row the mapping resolves to.
StatusOf(u, job) ==
  LET jobStatus == job.output
      status == mapRiverStateToTranscodeStatus(job.state)
      jobError == IF jobStatus.error # Nil THEN jobStatus.error
                  ELSE IF status = "failed" /\ Len(job.errors) > 0
                       THEN job.errors[Len(job.errors)]
                       ELSE Nil
  IN [code |-> 200, uuid |-> u, status |-> status,
      sourcePath |-> job.args.sourcePath,
      destinationPath |-> job.args.destinationPath,
      progress |-> jobStatus.progress, error |-> jobError]

\* The answer of GetTranscodeStatus when its two reads succeed.
GetTranscodeStatus(u) ==
  IF MappingRowsOf(u) = {} THEN NotFound
  ELSE LET riverJobID == (CHOOSE m \in MappingRowsOf(u) : TRUE).river_job_id
       IN IF riverJobID \notin JobIds THEN NotFound
          ELSE StatusOf(u, river_job[riverJobID])

\* The job row the mapping resolves identifier u to.
JobOf(u) == river_job[(CHOOSE m \in MappingRowsOf(u) : TRUE).river_job_id]

\* The 500 response; cause names the read that failed.
InternalError(cause) == [code |-> 500, cause |-> cause]

\* How the two reads of the handler can end.
ReadOutcomes == {"ok", "failed to look up job mapping", "failed to get river job"}

GetStatus_MarksJob(c) ==
  /\ call[c].pc = "idle"
  /\ \A d \in Calls : d < c => call[d].pc # "idle"
  /\ \E u \in UUIDs : \E outcome \in ReadOutcomes :
       /\ outcome = "failed to get river job" => MappingRowsOf(u) # {}
       /\ call' = [call EXCEPT
                     ![c].pc = "answered",
                     ![c].body = [NilBody EXCEPT !.uuid = u],
                     ![c].job = IF outcome = "ok" /\ GetTranscodeStatus(u) # NotFound
                                THEN JobOf(u) ELSE NoRow,
                     ![c].resp = IF outcome = "ok" THEN GetTranscodeStatus(u)
                                 ELSE InternalError(outcome)]
       /\ river_job' = [j \in JobIds |->
                          IF river_job[j].args.uuid = u /\ outcome = "ok"
                          THEN [river_job[j] EXCEPT
                                  !.output = TranscodeJobStatus(@.progress, Nil)]
                          ELSE river_job[j]]
  /\ UNCHANGED <<webhook_job, uuid_job_mapping, job_id_seq, w, environ, config, handbrake, ffmpeg, migration>>

\* GET /transcodes/{uuid}: the mapping row is looked up, the job fetched from
\* River and projected; either read may fail.  Nothing is written.
GetStatus(c) ==
  /\ call[c].pc = "idle"
  /\ \A d \in Calls : d < c => call[d].pc # "idle"
  /\ \E u \in UUIDs : \E outcome \in ReadOutcomes :
       /\ outcome = "failed to get river job" => MappingRowsOf(u) # {}
       /\ call' = [call EXCEPT
                     ![c].pc = "answered",
                     ![c].body = [NilBody EXCEPT !.uuid = u],
                     ![c].job = IF outcome = "ok" /\ GetTranscodeStatus(u) # NotFound
                                THEN JobOf(u) ELSE NoRow,
                     ![c].resp = IF outcome = "ok" THEN GetTranscodeStatus(u)
                                 ELSE InternalError(outcome)]
  /\ UNCHANGED <<river_job, webhook_job, uuid_job_mapping, job_id_seq, w, environ, config, handbrake, ffmpeg, migration>>

\* ------------------------------------------------- TranscodeWorker.Work

\* updateInterval := 30 * time.Second
updateInterval == 30

\* Percent of progress between two ticks of the subprocess.
ProgressStep == 30

\* Progress values the ticks of one transcode carry (percent), in this order.
ProgressValues == {k * ProgressStep : k \in 1..MaxTicks}

\* The diagnostic of a failed transcode (err.Error()).
TranscodeErrors == {"ffmpeg failed"}

\* The error of a subprocess killed because the context of Work was cancelled
\* (exec.CommandContext).
Killed == "signal: killed"

\* No request was built.
NoPayload ==
  [token |-> Nil, uuid |-> Unset, error |-> Nil, hasProgress |-> FALSE,
   progress |-> 0]

\* The worker executes no job.
Idle ==
  [pc |-> "idle", job |-> 0, since |-> 0, lastProgress |-> 0,
   firstHeartbeatSent |-> FALSE, tick |-> 0, ctxOutput |-> NoOutput,
   status |-> NoOutput, ret |-> Nil, cancelled |-> FALSE,
   req |-> NoPayload, resp |-> 0]

\* The arguments of the job the worker executes.
args == river_job[w.job].args

\* internal.WebhookJobArgs of the terminal notification.
WebhookArgs(a, status) ==
  [uri |-> a.webhookURI, token |-> a.webhookToken, uuid |-> a.uuid,
   status |-> status, isHeartbeat |-> FALSE]

\* internal.WebhookJobArgs of a heartbeat notification.
HeartbeatArgs(a, status) ==
  [uri |-> a.heartbeatWebhookURI, token |-> a.webhookToken, uuid |-> a.uuid,
   status |-> status, isHeartbeat |-> TRUE]

\* NewTranscoder panics on a profile it does not know.
NewTranscoderPanics(profile) == profile \notin {ProfilePreview, ProfileFast1080p30}

\* River fetches an available transcode job and calls Work: the job is
\* running and its attempt counted.
JobFetch(j) ==
  /\ w.pc = "idle"
  /\ river_job[j].state = "available"
  /\ river_job' = [river_job EXCEPT ![j].state = "running",
                                    ![j].attempt = @ + 1]
  /\ w' = [Idle EXCEPT !.pc = "work", !.job = j]
  /\ UNCHANGED <<webhook_job, uuid_job_mapping, job_id_seq, call, environ, config, handbrake, ffmpeg, migration>>

\* Work up to the call of transcoder.Transcode: the transcoder is selected and
\* the throttle state initialised.
Work ==
  /\ w.pc = "work"
  /\ \/ /\ NewTranscoderPanics(args.profile)
        /\ w' = [w EXCEPT !.pc = "returned", !.ret = "panic: invalid profile"]
     \/ /\ ~NewTranscoderPanics(args.profile)
        /\ w' = [w EXCEPT !.pc = "transcoding", !.since = 0, !.lastProgress = 0,
                          !.firstHeartbeatSent = FALSE]
  /\ UNCHANGED <<river_job, webhook_job, uuid_job_mapping, job_id_seq, call, environ, config, handbrake, ffmpeg, migration>>

\* The ffmpeg transcoder reads the progress lines in a goroutine of its own,
\* which Transcode does not wait for; the HandBrake transcoder reads them in
\* Transcode itself.
ReadsConcurrently(profile) == profile = ProfilePreview

\* Positions of Work after Transcode has returned at which the reading
\* goroutine may still be calling the callback: from the final
\* river.RecordOutput up to river.JobCompleteTx or the return of Work.
AfterTranscode == {"recorded", "enqueue", "tx begun", "tx inserted"}

\* progressCallback can be running: the subprocess runs, or Transcode has
\* returned and the goroutine of the ffmpeg transcoder has not ended.
CallbackRuns ==
  \/ w.pc = "transcoding"
  \/ w.pc \in AfterTranscode /\ ReadsConcurrently(args.profile)

\* Time passes while the subprocess runs; since is time.Since(lastUpdateTime),
\* which the callback only compares with updateInterval.
AdvanceClock ==
  /\ CallbackRuns
  /\ w.since < updateInterval
  /\ w' = [w EXCEPT !.since = IF @ + ClockStep > updateInterval
                              THEN updateInterval ELSE @ + ClockStep]
  /\ UNCHANGED <<river_job, webhook_job, uuid_job_mapping, job_id_seq, call, environ, config, handbrake, ffmpeg, migration>>

enqueueHeartbeatWebhook_OutputOutsideTx(status, ok) ==
  /\ river_job' = [river_job EXCEPT ![w.job].output = status]
  /\ IF ok
     THEN webhook_job' = Append(webhook_job,
                                JobRow("webhook", HeartbeatArgs(args, status), 1))
     ELSE UNCHANGED webhook_job

\* The heartbeat transaction commits or fails; with the context cancelled
\* w.DBPool.Begin(ctx) fails.
HeartbeatOutcomes == IF w.cancelled THEN {FALSE} ELSE BOOLEAN

enqueueHeartbeatWebhook_DefaultAttempts(status, ok) ==
  IF ok
  THEN /\ river_job' = [river_job EXCEPT ![w.job].output = status]
       /\ webhook_job' = Append(webhook_job,
                                JobRow("webhook", HeartbeatArgs(args, status),
                                       MaxAttempts))
  ELSE UNCHANGED <<river_job, webhook_job>>

\* enqueueHeartbeatWebhook: one transaction inserts the heartbeat job
\* (MaxAttempts: 1) and updates the job's output; it commits or fails whole.
enqueueHeartbeatWebhook(status, ok) ==
  IF ok
  THEN /\ river_job' = [river_job EXCEPT ![w.job].output = status]
       /\ webhook_job' = Append(webhook_job,
                                JobRow("webhook", HeartbeatArgs(args, status), 1))
  ELSE UNCHANGED <<river_job, webhook_job>>

progressCallback_FailureMarksSent(currentProgress) ==
  LET shouldUpdate == w.since >= updateInterval
      needsFirstHeartbeat == args.heartbeatWebhookURI # Nil /\ ~w.firstHeartbeatSent
      status == TranscodeJobStatus(currentProgress, Nil)
  IN
  /\ CallbackRuns
  /\ currentProgress > w.tick
  /\ \/ /\ shouldUpdate \/ needsFirstHeartbeat
        /\ args.heartbeatWebhookURI # Nil
        /\ \E ok \in HeartbeatOutcomes :
             /\ enqueueHeartbeatWebhook(status, ok)
             /\ w' = [w EXCEPT !.tick = currentProgress, !.since = 0,
                               !.lastProgress = currentProgress,
                               !.firstHeartbeatSent = TRUE]
     \/ /\ shouldUpdate \/ needsFirstHeartbeat
        /\ args.heartbeatWebhookURI = Nil
        /\ w' = [w EXCEPT !.tick = currentProgress, !.since = 0,
                          !.lastProgress = currentProgress,
                          !.ctxOutput = status]
        /\ UNCHANGED <<river_job, webhook_job>>
     \/ /\ ~(shouldUpdate \/ needsFirstHeartbeat)
        /\ w' = [w EXCEPT !.tick = currentProgress]
        /\ UNCHANGED <<river_job, webhook_job>>
  /\ UNCHANGED <<uuid_job_mapping, job_id_seq, call, environ, config, handbrake, ffmpeg, migration>>

progressCallback_IntervalOnly(currentProgress) ==
  LET shouldUpdate == w.since >= updateInterval
      needsFirstHeartbeat == FALSE
      status == TranscodeJobStatus(currentProgress, Nil)
  IN
  /\ CallbackRuns
  /\ currentProgress > w.tick
  /\ \/ /\ shouldUpdate \/ needsFirstHeartbeat
        /\ args.heartbeatWebhookURI # Nil
        /\ \E ok \in HeartbeatOutcomes :
             /\ enqueueHeartbeatWebhook(status, ok)
             /\ w' = [w EXCEPT !.tick = currentProgress, !.since = 0,
                               !.lastProgress = currentProgress,
                               !.firstHeartbeatSent = @ \/ ok]
     \/ /\ shouldUpdate \/ needsFirstHeartbeat
        /\ args.heartbeatWebhookURI = Nil
        /\ w' = [w EXCEPT !.tick = currentProgress, !.since = 0,
                          !.lastProgress = currentProgress,
                          !.ctxOutput = status]
        /\ UNCHANGED <<river_job, webhook_job>>
     \/ /\ ~(shouldUpdate \/ needsFirstHeartbeat)
        /\ w' = [w EXCEPT !.tick = currentProgress]
        /\ UNCHANGED <<river_job, webhook_job>>
  /\ UNCHANGED <<uuid_job_mapping, job_id_seq, call, environ, config, handbrake, ffmpeg, migration>>

progressCallback_Unthrottled(currentProgress) ==
  LET shouldUpdate == TRUE
      needsFirstHeartbeat == args.heartbeatWebhookURI # Nil /\ ~w.firstHeartbeatSent
      status == TranscodeJobStatus(currentProgress, Nil)
  IN
  /\ CallbackRuns
  /\ currentProgress > w.tick
  /\ \/ /\ shouldUpdate \/ needsFirstHeartbeat
        /\ args.heartbeatWebhookURI # Nil
        /\ \E ok \in HeartbeatOutcomes :
             /\ enqueueHeartbeatWebhook(status, ok)
             /\ w' = [w EXCEPT !.tick = currentProgress, !.since = 0,
                               !.lastProgress = currentProgress,
                               !.firstHeartbeatSent = @ \/ ok]
     \/ /\ shouldUpdate \/ needsFirstHeartbeat
        /\ args.heartbeatWebhookURI = Nil
        /\ w' = [w EXCEPT !.tick = currentProgress, !.since = 0,
                          !.lastProgress = currentProgress,
                          !.ctxOutput = status]
        /\ UNCHANGED <<river_job, webhook_job>>
     \/ /\ ~(shouldUpdate \/ needsFirstHeartbeat)
        /\ w' = [w EXCEPT !.tick = currentProgress]
        /\ UNCHANGED <<river_job, webhook_job>>
  /\ UNCHANGED <<uuid_job_mapping, job_id_seq, call, environ, config, handbrake, ffmpeg, migration>>

progressCallback_DroppedTickRemembered(currentProgress) ==
  LET shouldUpdate == w.since >= updateInterval
      needsFirstHeartbeat == args.heartbeatWebhookURI # Nil /\ ~w.firstHeartbeatSent
      status == TranscodeJobStatus(currentProgress, Nil)
  IN
  /\ CallbackRuns
  /\ currentProgress > w.tick
  /\ \/ /\ shouldUpdate \/ needsFirstHeartbeat
        /\ args.heartbeatWebhookURI # Nil
        /\ \E ok \in HeartbeatOutcomes :
             /\ enqueueHeartbeatWebhook(status, ok)
             /\ w' = [w EXCEPT !.tick = currentProgress, !.since = 0,
                               !.lastProgress = currentProgress,
                               !.firstHeartbeatSent = @ \/ ok]
     \/ /\ shouldUpdate \/ needsFirstHeartbeat
        /\ args.heartbeatWebhookURI = Nil
        /\ w' = [w EXCEPT !.tick = currentProgress, !.since = 0,
                          !.lastProgress = currentProgress,
                          !.ctxOutput = status]
        /\ UNCHANGED <<river_job, webhook_job>>
     \/ /\ ~(shouldUpdate \/ needsFirstHeartbeat)
        /\ w' = [w EXCEPT !.tick = currentProgress, !.lastProgress = currentProgress]
        /\ UNCHANGED <<river_job, webhook_job>>
  /\ UNCHANGED <<uuid_job_mapping, job_id_seq, call, environ, config, handbrake, ffmpeg, migration>>

\* One invocation of progressCallback(currentProgress).
progressCallback(currentProgress) ==
  LET shouldUpdate == w.since >= updateInterval
      needsFirstHeartbeat == args.heartbeatWebhookURI # Nil /\ ~w.firstHeartbeatSent
      status == TranscodeJobStatus(currentProgress, Nil)
  IN
  /\ CallbackRuns
  /\ currentProgress > w.tick
  /\ \/ /\ shouldUpdate \/ needsFirstHeartbeat
        /\ args.heartbeatWebhookURI # Nil
        /\ \E ok \in HeartbeatOutcomes :
             /\ enqueueHeartbeatWebhook(status, ok)
             /\ w' = [w EXCEPT !.tick = currentProgress, !.since = 0,
                               !.lastProgress = currentProgress,
                               !.firstHeartbeatSent = @ \/ ok]
     \/ /\ shouldUpdate \/ needsFirstHeartbeat
        /\ args.heartbeatWebhookURI = Nil
        /\ w' = [w EXCEPT !.tick = currentProgress, !.since = 0,
                          !.lastProgress = currentProgress,
                          !.ctxOutput = status]
        /\ UNCHANGED <<river_job, webhook_job>>
     \/ /\ ~(shouldUpdate \/ needsFirstHeartbeat)
        /\ w' = [w EXCEPT !.tick = currentProgress]
        /\ UNCHANGED <<river_job, webhook_job>>
  /\ UNCHANGED <<uuid_job_mapping, job_id_seq, call, environ, config, handbrake, ffmpeg, migration>>

\* The final progress of a successful transcode.
FinalProgress == 100

\* The status Work records when Transcode has returned err (Nil: success).
FinalStatus(err) ==
  IF err # Nil THEN TranscodeJobStatus(w.lastProgress, err)
  ELSE TranscodeJobStatus(FinalProgress, Nil)

\* transcoder.Transcode returns and Work records the final status
\* (river.RecordOutput).
TranscodeReturns(err) ==
  /\ w.pc = "transcoding"
  /\ \/ /\ args.webhookURI # Nil
        /\ w' = [w EXCEPT !.pc = "enqueue", !.status = FinalStatus(err),
                          !.ctxOutput = FinalStatus(err)]
     \/ /\ args.webhookURI = Nil
        /\ w' = [w EXCEPT !.pc = "recorded", !.status = FinalStatus(err),
                          !.ctxOutput = FinalStatus(err)]
  /\ UNCHANGED <<river_job, webhook_job, uuid_job_mapping, job_id_seq, call, environ, config, handbrake, ffmpeg, migration>>

\* The context of Work is cancelled while the subprocess runs (SIGINT or
\* SIGTERM cancels the context given to riverClient.Start): the subprocess is
\* killed, Transcode returns its error and Work records the final status as for
\* any failed transcode.
ContextCancelled ==
  /\ w.pc = "transcoding"
  /\ w' = [w EXCEPT !.pc = IF args.webhookURI # Nil THEN "enqueue" ELSE "recorded",
                    !.status = FinalStatus(Killed),
                    !.ctxOutput = FinalStatus(Killed),
                    !.cancelled = TRUE]
  /\ UNCHANGED <<river_job, webhook_job, uuid_job_mapping, job_id_seq, call, environ, config, handbrake, ffmpeg, migration>>

\* Without a completion webhook Work returns: the transcode error, or nil.
WorkReturns ==
  /\ w.pc = "recorded"
  /\ w' = [w EXCEPT !.pc = "returned",
                    !.ret = IF w.status.error # Nil THEN "transcoding failed" ELSE Nil]
  /\ UNCHANGED <<river_job, webhook_job, uuid_job_mapping, job_id_seq, call, environ, config, handbrake, ffmpeg, migration>>

EnqueueFails_Swallowed ==
  w' = [w EXCEPT !.pc = "returned", !.ret = Nil]

\* enqueueWebhook returned an error: the deferred tx.Rollback drops what the
\* transaction wrote, and Work returns "failed to enqueue webhook".
EnqueueFails ==
  w' = [w EXCEPT !.pc = "returned", !.ret = "failed to enqueue webhook"]

\* w.DBPool.Begin(ctx).
enqueueWebhookBegin ==
  /\ w.pc = "enqueue"
  /\ \/ /\ ~w.cancelled
        /\ w' = [w EXCEPT !.pc = "tx begun"]
     \/ EnqueueFails
  /\ UNCHANGED <<river_job, webhook_job, uuid_job_mapping, job_id_seq, call, environ, config, handbrake, ffmpeg, migration>>

\* client.InsertTx(ctx, tx, webhookArgs, nil).
enqueueWebhookInsert ==
  /\ w.pc = "tx begun"
  /\ \/ w' = [w EXCEPT !.pc = "tx inserted"]
     \/ EnqueueFails
  /\ UNCHANGED <<river_job, webhook_job, uuid_job_mapping, job_id_seq, call, environ, config, handbrake, ffmpeg, migration>>

\* river.JobCompleteTx(ctx, tx, job).
enqueueWebhookComplete ==
  /\ w.pc = "tx inserted"
  /\ \/ w' = [w EXCEPT !.pc = "tx completed"]
     \/ EnqueueFails
  /\ UNCHANGED <<river_job, webhook_job, uuid_job_mapping, job_id_seq, call, environ, config, handbrake, ffmpeg, migration>>

\* The job row JobCompleteTx writes: completed, with the output recorded in
\* the work context.
Completed(job, ctxOutput) ==
  [job EXCEPT !.state = "completed",
              !.output = IF ctxOutput.set THEN ctxOutput ELSE @]

enqueueWebhookCommit_InsertOutsideTx ==
  /\ w.pc = "tx completed"
  /\ webhook_job' = Append(webhook_job,
                       JobRow("webhook", WebhookArgs(args, w.status), MaxAttempts))
  /\ \/ /\ river_job' = [river_job EXCEPT
                           ![w.job] = Completed(river_job[w.job], w.ctxOutput)]
        /\ w' = [w EXCEPT !.pc = "returned", !.ret = Nil]
     \/ /\ EnqueueFails
        /\ UNCHANGED river_job
  /\ UNCHANGED <<uuid_job_mapping, job_id_seq, call, environ, config, handbrake, ffmpeg, migration>>

\* tx.Commit(ctx); on success Work returns nil.
enqueueWebhookCommit ==
  /\ w.pc = "tx completed"
  /\ \/ /\ river_job' = [river_job EXCEPT
                           ![w.job] = Completed(river_job[w.job], w.ctxOutput)]
        /\ webhook_job' = Append(webhook_job,
                             JobRow("webhook", WebhookArgs(args, w.status), MaxAttempts))
        /\ w' = [w EXCEPT !.pc = "returned", !.ret = Nil]
     \/ /\ EnqueueFails
        /\ UNCHANGED <<river_job, webhook_job>>
  /\ UNCHANGED <<uuid_job_mapping, job_id_seq, call, environ, config, handbrake, ffmpeg, migration>>

Finished_ErrorAsStatus(job, ret, ctxOutput) ==
  LET out == IF ret # Nil THEN TranscodeJobStatus(ctxOutput.progress, ret)
             ELSE IF ctxOutput.set THEN ctxOutput ELSE job.output IN
  IF job.state # "running" THEN [job EXCEPT !.output = out]
  ELSE IF ret = Nil THEN [job EXCEPT !.state = "completed", !.output = out]
  ELSE [job EXCEPT !.state = IF job.attempt >= job.max_attempts
                             THEN "discarded" ELSE "retryable",
                   !.errors = Append(@, ret), !.output = out]

\* The job row after River has recorded the end of an attempt that returned
\* ret; the recorded output is written with it.
Finished(job, ret, ctxOutput) ==
  LET out == IF ctxOutput.set THEN ctxOutput ELSE job.output IN
  IF job.state # "running" THEN [job EXCEPT !.output = out]
  ELSE IF ret = Nil THEN [job EXCEPT !.state = "completed", !.output = out]
  ELSE [job EXCEPT !.state = IF job.attempt >= job.max_attempts
                             THEN "discarded" ELSE "retryable",
                   !.errors = Append(@, ret), !.output = out]

\* Work has returned (or panicked): River records the outcome.
JobFinish ==
  /\ w.pc = "returned"
  /\ river_job' = [river_job EXCEPT
                     ![w.job] = Finished(river_job[w.job], w.ret, w.ctxOutput)]
  /\ w' = Idle
  /\ UNCHANGED <<webhook_job, uuid_job_mapping, job_id_seq, call, environ, config, handbrake, ffmpeg, migration>>

\* River makes a retryable job available again.
JobRetry(j) ==
  /\ river_job[j].state = "retryable"
  /\ river_job' = [river_job EXCEPT ![j].state = "available"]
  /\ UNCHANGED <<webhook_job, uuid_job_mapping, job_id_seq, call, w, environ, config, handbrake, ffmpeg, migration>>

\* The worker process stops in the middle of an attempt: its open transaction
\* is rolled back and its work context is lost; the job stays running.
WorkerStops ==
  /\ w.pc \notin {"idle", "returned"}
  /\ w' = Idle
  /\ UNCHANGED <<river_job, webhook_job, uuid_job_mapping, job_id_seq, call, environ, config, handbrake, ffmpeg, migration>>

\* River rescues a job left running by a worker that is gone.
JobRescue(j) ==
  /\ river_job[j].state = "running"
  /\ w.job # j
  /\ river_job' = [river_job EXCEPT
                     ![j].state = IF river_job[j].attempt >= river_job[j].max_attempts
                                  THEN "discarded" ELSE "retryable",
                     ![j].errors = Append(@, "rescued")]
  /\ UNCHANGED <<webhook_job, uuid_job_mapping, job_id_seq, call, w, environ, config, handbrake, ffmpeg, migration>>

\* ------------------------------------------------------ WebhookWorker.Work

\* A webhook URI that url.Parse rejects, so that http.NewRequestWithContext
\* returns an error.
MalformedURI == "%zz"

\* Status codes of the response client.Do returns.
StatusCodes == {101, 200, 300}

\* What client.Do can return: a response with a status code, or an error
\* (err = TRUE) and no response.
HTTPOutcomes ==
  {[err |-> FALSE, code |-> c] : c \in StatusCodes} \cup {[err |-> TRUE, code |-> 0]}

WebhookPayload_ProgressAlways(a) ==
  [token |-> IF a.token = Unset THEN Nil ELSE a.token,
   uuid |-> a.uuid,
   error |-> IF a.status.set THEN a.status.error ELSE Nil,
   hasProgress |-> a.status.set,
   progress |-> IF a.status.set THEN a.status.progress ELSE 0]

\* WebhookPayload as json.Marshal writes it: token is omitted when empty,
\* error when the pointer is nil, progress when the pointer is nil.
WebhookPayload(a) ==
  [token |-> IF a.token = Unset THEN Nil ELSE a.token,
   uuid |-> a.uuid,
   error |-> IF a.status.set THEN a.status.error ELSE Nil,
   hasProgress |-> a.status.set /\ a.isHeartbeat,
   progress |-> IF a.status.set /\ a.isHeartbeat THEN a.status.progress ELSE 0]

\* fmt.Errorf("webhook request failed with status %d", resp.StatusCode)
StatusError(code) == "webhook request failed with status " \o ToString(code)

\* River fetches an available webhook job and calls WebhookWorker.Work.
WebhookFetch(i) ==
  /\ w.pc = "idle"
  /\ webhook_job[i].state = "available"
  /\ webhook_job' = [webhook_job EXCEPT ![i].state = "running",
                                        ![i].attempt = @ + 1]
  /\ w' = [Idle EXCEPT !.pc = "deliver", !.job = i]
  /\ UNCHANGED <<river_job, uuid_job_mapping, job_id_seq, call, environ, config, handbrake, ffmpeg, migration>>

DeliveryError_NoLowerBound(o) ==
  IF o.err THEN "failed to send webhook request"
  ELSE IF o.code >= 300 THEN StatusError(o.code)
  ELSE Nil

\* The error Work returns for the outcome o of client.Do.
DeliveryError(o) ==
  IF o.err THEN "failed to send webhook request"
  ELSE IF o.code < 200 \/ o.code >= 300 THEN StatusError(o.code)
  ELSE Nil

\* WebhookWorker.Work: the payload is built from the job's arguments, posted
\* to the URI, and the response judged by its status code.
WebhookWork ==
  /\ w.pc = "deliver"
  /\ LET a == webhook_job[w.job].args IN
       IF a.uri = MalformedURI
       THEN w' = [w EXCEPT !.pc = "delivered",
                           !.ret = "failed to create webhook request"]
       ELSE \E o \in HTTPOutcomes :
              w' = [w EXCEPT !.pc = "delivered",
                             !.req = WebhookPayload(a),
                             !.resp = o.code,
                             !.ret = DeliveryError(o)]
  /\ UNCHANGED <<river_job, webhook_job, uuid_job_mapping, job_id_seq, call, environ, config, handbrake, ffmpeg, migration>>

WebhookFinish_SurfacesFailure ==
  /\ w.pc = "delivered"
  /\ webhook_job' = [webhook_job EXCEPT
                       ![w.job] = Finished(webhook_job[w.job], w.ret, NoOutput)]
  /\ river_job' =
       [j \in JobIds |->
          IF w.ret # Nil /\ river_job[j].args.uuid = webhook_job[w.job].args.uuid
          THEN [river_job[j] EXCEPT !.errors = Append(@, w.ret)]
          ELSE river_job[j]]
  /\ w' = Idle
  /\ UNCHANGED <<uuid_job_mapping, job_id_seq, call, environ, config, handbrake, ffmpeg, migration>>

\* Work has returned: River records the outcome on the webhook job.
WebhookFinish ==
  /\ w.pc = "delivered"
  /\ webhook_job' = [webhook_job EXCEPT
                       ![w.job] = Finished(webhook_job[w.job], w.ret, NoOutput)]
  /\ w' = Idle
  /\ UNCHANGED <<river_job, uuid_job_mapping, job_id_seq, call, environ, config, handbrake, ffmpeg, migration>>

\* River makes a retryable webhook job available again.
WebhookRetry(i) ==
  /\ webhook_job[i].state = "retryable"
  /\ webhook_job' = [webhook_job EXCEPT ![i].state = "available"]
  /\ UNCHANGED <<river_job, uuid_job_mapping, job_id_seq, call, w, environ, config, handbrake, ffmpeg, migration>>

\* ------------------------------------------ handbrakeTranscoder.Transcode

\* The pieces of text the lines of HandBrakeCLI's output are made of: the
\* label of a progress block, the braces, the members of the progress object,
\* white space, and text that is no JSON.
ProgressLabel == "Progress:"
OpenBrace == "{"
CloseBrace == "}"
StateWorking == "'State':'WORKING',"
StateScanning == "'State':'SCANNING'"
WorkingKey == "'Working':"
ProgressHalf == "'Progress':0.5"
Space == " "
Noise == "Encoding"

\* strings.HasPrefix(line, "Progress:") and strings.TrimPrefix.
HasPrefix(line, prefix) == line # <<>> /\ Head(line) = prefix

TrimPrefix(line, prefix) == IF HasPrefix(line, prefix) THEN Tail(line) ELSE line

\* strings.TrimSpace: leading and trailing white space removed.
RECURSIVE TrimSpace(_)
TrimSpace(text) ==
  IF text = <<>> THEN text
  ELSE IF Head(text) = Space THEN TrimSpace(Tail(text))
  ELSE IF text[Len(text)] = Space THEN TrimSpace(SubSeq(text, 1, Len(text) - 1))
  ELSE text

\* strings.Count(text, piece).
Count(text, piece) == Cardinality({i \in DOMAIN text : text[i] = piece})

\* json.Unmarshal into handbrakeProgress: white space between the tokens is
\* skipped, the text must be exactly one object, members that are absent keep
\* their zero value. Progress is kept in hundredths (0.5 is 50).
Unmarshal(text) ==
  LET tokens == SelectSeq(text, LAMBDA t : t # Space) IN
  IF tokens = <<OpenBrace, CloseBrace>>
  THEN [err |-> FALSE, State |-> "", Progress |-> 0]
  ELSE IF tokens = <<OpenBrace, StateScanning, CloseBrace>>
  THEN [err |-> FALSE, State |-> "SCANNING", Progress |-> 0]
  ELSE IF tokens = <<OpenBrace, StateWorking, WorkingKey, OpenBrace, CloseBrace,
                     CloseBrace>>
  THEN [err |-> FALSE, State |-> "WORKING", Progress |-> 0]
  ELSE IF tokens = <<OpenBrace, StateWorking, WorkingKey, OpenBrace, ProgressHalf,
                     CloseBrace, CloseBrace>>
  THEN [err |-> FALSE, State |-> "WORKING", Progress |-> 50]
  ELSE [err |-> TRUE, State |-> "", Progress |-> 0]

\* No output is being scanned.
NoScan ==
  [input |-> <<>>, stream |-> <<>>, jsonBuffer |-> <<>>, inProgressBlock |-> FALSE,
   braceCount |-> 0, calls |-> <<>>]

\* Transcode starts to scan the output of the subprocess.
StartScan(lines) == [NoScan EXCEPT !.input = lines, !.stream = lines]

\* One turn of the loop over scanner.Scan(): a line with the label starts a
\* block and goes on to the next line; a line inside a block is added to the
\* buffer and, if the braces are balanced then, the buffer is parsed and the
\* callback called for state WORKING (with progress * 100); any other line is
\* skipped.
ScanLine ==
  /\ handbrake.stream # <<>>
  /\ LET line == Head(handbrake.stream)
         rest == [handbrake EXCEPT !.stream = Tail(@)]
     IN
     IF HasPrefix(line, ProgressLabel)
     THEN LET jsonPart == TrimSpace(TrimPrefix(line, ProgressLabel)) IN
          handbrake' =
            [rest EXCEPT !.inProgressBlock = TRUE,
                         !.jsonBuffer = jsonPart,
                         !.braceCount = Count(jsonPart, OpenBrace)
                                          - Count(jsonPart, CloseBrace)]
     ELSE IF handbrake.inProgressBlock
     THEN LET jsonStr == handbrake.jsonBuffer \o line
              count == handbrake.braceCount + Count(line, OpenBrace)
                         - Count(line, CloseBrace)
              progress == Unmarshal(jsonStr)
          IN
          IF count = 0
          THEN handbrake' =
                 [rest EXCEPT !.inProgressBlock = FALSE,
                              !.jsonBuffer = jsonStr,
                              !.braceCount = 0,
                              !.calls = IF ~progress.err /\ progress.State = "WORKING"
                                        THEN Append(@, progress.Progress)
                                        ELSE @]
          ELSE handbrake' = [rest EXCEPT !.jsonBuffer = jsonStr, !.braceCount = count]
     ELSE handbrake' = rest
  /\ UNCHANGED <<river_job, webhook_job, uuid_job_mapping, job_id_seq, call, w, environ, config, ffmpeg, migration>>

\* ------------------------------------------------- MigrateUp, MigrateDown

\* The processes that migrate at their start, each with its own pool, and the
\* connections of a pool. pool.Exec runs its statement on whichever
\* connection of the pool it acquires.
Procs == {"server", "worker"}

PoolSize == 2

Conns == 1..PoolSize

\* The advisory lock is held by a session, which is one connection of one
\* pool, or by none.
Free == [proc |-> "", conn |-> 0]

\* No process is migrating.
NoMigration ==
  [lock |-> Free,
   pc |-> [p \in Procs |-> "idle"],
   cancelled |-> [p \in Procs |-> FALSE],
   steps |-> [p \in Procs |-> 0],
   err |-> [p \in Procs |-> Nil]]

\* The context of run is cancelled by a signal (signal.NotifyContext).
Cancel(p) ==
  /\ migration.pc[p] \in {"start", "migrating", "release"}
  /\ ~migration.cancelled[p]
  /\ migration' = [migration EXCEPT !.cancelled[p] = TRUE]
  /\ UNCHANGED <<river_job, webhook_job, uuid_job_mapping, job_id_seq, call, w, environ, config, handbrake, ffmpeg>>

\* acquireAdvisoryLock: pg_advisory_lock on a connection of the pool waits
\* until the lock is free and gives it to that session; if Exec fails, as it
\* does with a cancelled context, the run returns the error without a lock
\* and without a release deferred.
acquireAdvisoryLock(p) ==
  /\ migration.pc[p] = "start"
  /\ \/ /\ ~migration.cancelled[p]
        /\ migration.lock = Free
        /\ \E c \in Conns :
             migration' = [migration EXCEPT !.lock = [proc |-> p, conn |-> c],
                                            !.pc[p] = "migrating"]
     \/ migration' = [migration EXCEPT !.pc[p] = "returned",
                                       !.err[p] = "failed to acquire advisory lock"]
  /\ UNCHANGED <<river_job, webhook_job, uuid_job_mapping, job_id_seq, call, w, environ, config, handbrake, ffmpeg>>

\* The migrations of River and of the application, one after the other (in
\* this order up, in the other order down): a step succeeds or its error ends
\* the run; the deferred release follows in both cases.
Migrate(p) ==
  /\ migration.pc[p] = "migrating"
  /\ \/ migration' = [migration EXCEPT !.steps[p] = @ + 1,
                                       !.pc[p] = IF migration.steps[p] = 1
                                                 THEN "release" ELSE @]
     \/ migration' = [migration EXCEPT !.pc[p] = "release",
                                       !.err[p] = "failed to run migrations"]
  /\ UNCHANGED <<river_job, webhook_job, uuid_job_mapping, job_id_seq, call, w, environ, config, handbrake, ffmpeg>>

\* releaseAdvisoryLock, deferred: pg_advisory_unlock on a connection of the
\* pool releases the lock if that session holds it and otherwise does nothing
\* but return false; with a cancelled context Exec fails before it runs. The
\* result is dropped and the run returns.
releaseAdvisoryLock(p) ==
  /\ migration.pc[p] = "release"
  /\ \/ /\ ~migration.cancelled[p]
        /\ \E c \in Conns :
             migration' = [migration EXCEPT
                             !.lock = IF @ = [proc |-> p, conn |-> c] THEN Free ELSE @,
                             !.pc[p] = "returned"]
     \/ /\ migration.cancelled[p]
        /\ migration' = [migration EXCEPT !.pc[p] = "returned"]
  /\ UNCHANGED <<river_job, webhook_job, uuid_job_mapping, job_id_seq, call, w, environ, config, handbrake, ffmpeg>>

\* pool.Close, deferred in run, or the end of the process: the sessions of
\* the pool end and PostgreSQL drops the locks they hold.
Close(p) ==
  /\ migration.pc[p] = "returned"
  /\ migration' = [migration EXCEPT !.lock = IF @.proc = p THEN Free ELSE @,
                                    !.pc[p] = "closed"]
  /\ UNCHANGED <<river_job, webhook_job, uuid_job_mapping, job_id_seq, call, w, environ, config, handbrake, ffmpeg>>

\* --------------------------------------------- ffmpegTranscoder.Transcode

\* A time.Duration is counted in units of 10 milliseconds, the resolution of
\* the time marker.
Second == 100
Minute == 60 * Second
Hour == 60 * Minute

\* timeRegex, time=(\d{2}):(\d{2}):(\d{2})\.(\d{2}), matches the line at i. A
\* line is a sequence of characters in which "time=" and the other words of
\* ffmpeg's output are written as one piece each.
MatchesAt(line, i) ==
  /\ i + 11 <= Len(line)
  /\ line[i] = "time="
  /\ line[i + 3] = ":" /\ line[i + 6] = ":" /\ line[i + 9] = "."
  /\ \A k \in {1, 2, 4, 5, 7, 8, 10, 11} : line[i + k] \in DOMAIN DigitOf

\* timeRegex.FindStringSubmatch: the leftmost match and its four groups, or
\* nothing.
FindStringSubmatch(line) ==
  LET starts == {i \in 1..Len(line) : MatchesAt(line, i)} IN
  IF starts = {} THEN <<>>
  ELSE LET i == CHOOSE i \in starts : \A k \in starts : i <= k IN
       <<SubSeq(line, i, i + 11), SubSeq(line, i + 1, i + 2),
         SubSeq(line, i + 4, i + 5), SubSeq(line, i + 7, i + 8),
         SubSeq(line, i + 10, i + 11)>>

\* The float64 quotient n / d and its comparison with 1.0; a quotient is kept
\* as numerator and denominator.
Quotient(n, d) == [num |-> n, den |-> d]

GreaterThanOne(q) == IF q.den > 0 THEN q.num > q.den ELSE q.num < q.den

\* parseFfmpegProgress: the elapsed time of the line's marker divided by the
\* total duration, at most 1.0; nothing without a marker or for a total of 0.
parseFfmpegProgress(line, totalDuration) ==
  LET matches == FindStringSubmatch(line)
      hours == Atoi(matches[2]).value
      minutes == Atoi(matches[3]).value
      seconds == Atoi(matches[4]).value
      centiseconds == Atoi(matches[5]).value
      currentTime == hours * Hour + minutes * Minute + seconds * Second
                       + centiseconds
      progress == Quotient(currentTime, totalDuration)
  IN IF Len(matches) # 5 THEN [ok |-> FALSE, progress |-> Quotient(0, 1)]
     ELSE IF totalDuration = 0 THEN [ok |-> FALSE, progress |-> Quotient(0, 1)]
     ELSE IF GreaterThanOne(progress) THEN [ok |-> TRUE, progress |-> Quotient(1, 1)]
     ELSE [ok |-> TRUE, progress |-> progress]

\* progress * 100, the value handed to the callback.
Percentage(progress) == Quotient(progress.num * 100, progress.den)

targetHeight == 240

\* The width of the scale filter: (width * targetHeight) / height in Go's
\* integer division, made even by adding one.
targetWidth_NotEvened(width, height) == (width * targetHeight) \div height

targetWidth(width, height) ==
  LET derived == (width * targetHeight) \div height IN
  IF derived % 2 # 0 THEN derived + 1 ELSE derived

\* The errors Transcode returns: of the probes, of the start, and of a non-zero
\* exit, which cmd.Run returns as it is and which is wrapped after cmd.Wait.
Err ==
  [probeVideo |-> "failed to probe video",
   probeDuration |-> "failed to probe duration",
   start |-> "failed to start ffmpeg",
   run |-> "exec: no such file",
   exit |-> "exit status 1",
   ffmpegFailed |-> "ffmpeg failed: exit status 1"]

\* No transcode is running.
NoTranscode ==
  [pc |-> "idle", callback |-> FALSE, destination |-> "absent", width |-> 0,
   height |-> 0, totalDuration |-> 0, targetWidth |-> 0, probed |-> {},
   started |-> FALSE, exit |-> 0, err |-> Nil, lines |-> 0, called |-> FALSE,
   progress |-> Quotient(0, 1)]

\* What ffprobe may report of a source, and what ffmpeg may write to stderr.
MaxLinesRead == 2

Widths == 1..6 \cup {640, 1280, 1920}
Heights == 1..4 \cup {480, 720, 1080}
Durations == {0, 5 * Second, 10 * Second, 0 - 10 * Second}

Marker(s1, s2, c1) == <<"time=", "0", "0", ":", "0", "0", ":", s1, s2, ".", c1, "0">>

StderrLines ==
  {<<"frame=1">> \o Marker("0", "5", "0"),
   <<"out_">> \o Marker("1", "0", "0"),
   Marker("2", "0", "5"),
   <<"time=", "N/A">>,
   <<"time=", "-", "0", "0", ":", "0", "0", ":", "0", "0", ".", "0", "2">>,
   <<"speed=1x">>}

\* getResolution: ffprobe reports the resolution of the source, or the probe
\* fails and Transcode returns its error.
getResolution ==
  /\ ffmpeg.pc = "start"
  /\ \/ \E width \in Widths, height \in Heights :
          ffmpeg' = [ffmpeg EXCEPT !.width = width, !.height = height,
                                   !.probed = @ \cup {"resolution"},
                                   !.pc = IF ffmpeg.callback THEN "duration"
                                          ELSE "scale"]
     \/ ffmpeg' = [ffmpeg EXCEPT !.pc = "returned", !.err = Err.probeVideo]
  /\ UNCHANGED <<river_job, webhook_job, uuid_job_mapping, job_id_seq, call, w, environ, config, handbrake, migration>>

getDuration_FailureIgnored ==
  /\ ffmpeg.pc = "duration"
  /\ \/ \E totalDuration \in Durations :
          ffmpeg' = [ffmpeg EXCEPT !.totalDuration = totalDuration,
                                   !.probed = @ \cup {"duration"},
                                   !.pc = "scale"]
     \/ ffmpeg' = [ffmpeg EXCEPT !.pc = "scale"]
  /\ UNCHANGED <<river_job, webhook_job, uuid_job_mapping, job_id_seq, call, w, environ, config, handbrake, migration>>

\* getDuration, called when a callback is given.
getDuration ==
  /\ ffmpeg.pc = "duration"
  /\ \/ \E totalDuration \in Durations :
          ffmpeg' = [ffmpeg EXCEPT !.totalDuration = totalDuration,
                                   !.probed = @ \cup {"duration"},
                                   !.pc = "scale"]
     \/ ffmpeg' = [ffmpeg EXCEPT !.pc = "returned", !.err = Err.probeDuration]
  /\ UNCHANGED <<river_job, webhook_job, uuid_job_mapping, job_id_seq, call, w, environ, config, handbrake, migration>>

\* The scale is computed and the ffmpeg subprocess started (cmd.Start, or the
\* start of cmd.Run without a callback), or the start fails.
Start ==
  /\ ffmpeg.pc = "scale"
  /\ \/ ffmpeg' = [ffmpeg EXCEPT !.targetWidth = targetWidth(ffmpeg.width, ffmpeg.height),
                                 !.started = TRUE, !.pc = "running"]
     \/ ffmpeg' = [ffmpeg EXCEPT !.targetWidth = targetWidth(ffmpeg.width, ffmpeg.height),
                                 !.pc = "returned",
                                 !.err = IF ffmpeg.callback THEN Err.start
                                         ELSE Err.run]
  /\ UNCHANGED <<river_job, webhook_job, uuid_job_mapping, job_id_seq, call, w, environ, config, handbrake, migration>>

\* The goroutine reading stderr scans a line and calls the callback with the
\* percentage if the line yields a progress. Transcode does not wait for the
\* goroutine, so a line can be handled after Transcode has returned.
ReadLine ==
  /\ ffmpeg.started /\ ffmpeg.callback
  /\ ffmpeg.lines < MaxLinesRead
  /\ \E line \in StderrLines :
       LET parsed == parseFfmpegProgress(line, ffmpeg.totalDuration) IN
       ffmpeg' = [ffmpeg EXCEPT !.lines = @ + 1,
                                !.called = @ \/ parsed.ok,
                                !.progress = IF parsed.ok
                                             THEN Percentage(parsed.progress)
                                             ELSE @]
  /\ UNCHANGED <<river_job, webhook_job, uuid_job_mapping, job_id_seq, call, w, environ, config, handbrake, migration>>

\* cmd.Wait (or the end of cmd.Run): the subprocess has exited; it has written
\* the destination (-y) if it succeeded and may have written a part of it if
\* not. A non-zero exit is returned as an error.
Wait ==
  /\ ffmpeg.pc = "running"
  /\ \/ ffmpeg' = [ffmpeg EXCEPT !.pc = "returned", !.exit = 0,
                                 !.destination = "written"]
     \/ \E left \in {ffmpeg.destination, "partial"} :
          ffmpeg' = [ffmpeg EXCEPT !.pc = "returned", !.exit = 1,
                                   !.destination = left,
                                   !.err = IF ffmpeg.callback THEN Err.ffmpegFailed
                                           ELSE Err.exit]
  /\ UNCHANGED <<river_job, webhook_job, uuid_job_mapping, job_id_seq, call, w, environ, config, handbrake, migration>>

\* Transcode is called, with or without a callback, for a destination that
\* exists or not.
InitFfmpeg ==
  /\ \E callback \in BOOLEAN, destination \in {"absent", "present"} :
       ffmpeg = [NoTranscode EXCEPT !.pc = "start", !.callback = callback,
                                    !.destination = destination]
  /\ handbrake = NoScan
  /\ migration = NoMigration
  /\ environ = TestEnv
  /\ config = NewConfigFromEnv(TestEnv)
  /\ river_job = [j \in {} |-> 0]
  /\ webhook_job = <<>>
  /\ uuid_job_mapping = {}
  /\ job_id_seq = 0
  /\ call = [c \in Calls |-> NoCall]
  /\ w = Idle

NextFfmpeg == getResolution \/ getDuration \/ Start \/ ReadLine \/ Wait

SpecFfmpeg == InitFfmpeg /\ [][NextFfmpeg]_vars

NoJobs == [j \in {} |-> 0]

\* The lines the subprocess may write and the streams made of them.
MaxLines == 4

OutputLines ==
  {<<ProgressLabel, Space, OpenBrace>>,
   <<Space, StateWorking>>,
   <<Space, StateScanning>>,
   <<Space, WorkingKey, OpenBrace, ProgressHalf, CloseBrace>>,
   <<CloseBrace>>,
   <<ProgressLabel, Space, OpenBrace, StateWorking, WorkingKey, OpenBrace,
     ProgressHalf, CloseBrace, CloseBrace>>,
   <<Noise>>,
   <<>>}

OutputStreams == UNION {[1..n -> OutputLines] : n \in 1..MaxLines}

InitHandbrake ==
  /\ handbrake \in {StartScan(lines) : lines \in OutputStreams}
  /\ ffmpeg = NoTranscode
  /\ migration = NoMigration
  /\ environ = TestEnv
  /\ config = NewConfigFromEnv(TestEnv)
  /\ river_job = NoJobs
  /\ webhook_job = <<>>
  /\ uuid_job_mapping = {}
  /\ job_id_seq = 0
  /\ call = [c \in Calls |-> NoCall]
  /\ w = Idle

NextHandbrake == ScanLine

SpecHandbrake == InitHandbrake /\ [][NextHandbrake]_vars

\* Server and worker start together and call MigrateUp.
InitMigrate ==
  /\ migration = [NoMigration EXCEPT !.pc = [p \in Procs |-> "start"]]
  /\ handbrake = NoScan
  /\ ffmpeg = NoTranscode
  /\ environ = TestEnv
  /\ config = NewConfigFromEnv(TestEnv)
  /\ river_job = [j \in {} |-> 0]
  /\ webhook_job = <<>>
  /\ uuid_job_mapping = {}
  /\ job_id_seq = 0
  /\ call = [c \in Calls |-> NoCall]
  /\ w = Idle

NextMigrate ==
  \E p \in Procs :
    \/ acquireAdvisoryLock(p)
    \/ Migrate(p)
    \/ releaseAdvisoryLock(p)
    \/ Cancel(p)
    \/ Close(p)

SpecMigrate == InitMigrate /\ [][NextMigrate]_vars

\* ------------------------------------------------------------------ system

\* The process has loaded its configuration from the environment it was
\* started in.
Started ==
  /\ environ = TestEnv
  /\ config = NewConfigFromEnv(TestEnv)
  /\ handbrake = NoScan
  /\ ffmpeg = NoTranscode
  /\ migration = NoMigration

\* The start of run: the configuration is loaded from the environment.
LoadConfig ==
  /\ config = NotLoaded
  /\ config' = NewConfigFromEnv(environ)
  /\ UNCHANGED <<river_job, webhook_job, uuid_job_mapping, job_id_seq, call, w,
                 environ, handbrake, ffmpeg, migration>>

\* Values a port variable may be given, and values of the other variables.
PortValues ==
  {NotSet, EnvValue(<<"8", "0">>), EnvValue(<<"-", "1">>), EnvValue(<<"8", "x">>),
   EnvValue(<<>>)}

StringValues == {NotSet, EnvValue(<<"h">>), EnvValue(<<>>)}

\* A process started in any environment, before it has loaded its
\* configuration.
InitConfig ==
  /\ environ \in [EnvVars -> PortValues \cup StringValues]
  /\ \A k \in EnvVars \ {EnvServerPort, EnvDatabasePort} :
       environ[k] \in StringValues
  /\ \A k \in {EnvServerPort, EnvDatabasePort} : environ[k] \in PortValues
  /\ config = NotLoaded
  /\ handbrake = NoScan
  /\ ffmpeg = NoTranscode
  /\ migration = NoMigration
  /\ river_job = NoJobs
  /\ webhook_job = <<>>
  /\ uuid_job_mapping = {}
  /\ job_id_seq = 0
  /\ call = [c \in Calls |-> NoCall]
  /\ w = Idle

NextConfig == LoadConfig

SpecConfig == InitConfig /\ [][NextConfig]_vars


\* Transcode jobs a queue may hold when the processes start.
SeedArgs(profiles, heartbeats) ==
  { [uuid |-> "u1", sourcePath |-> "s", destinationPath |-> "d1",
     profile |-> pr, webhookURI |-> wh, webhookToken |-> "T",
     heartbeatWebhookURI |-> hb] :
       pr \in profiles, wh \in {Nil, "W"}, hb \in heartbeats }

InitQueue(profiles, heartbeats) ==
  \/ /\ river_job = NoJobs
     /\ uuid_job_mapping = {}
     /\ job_id_seq = 0
  \/ \E a \in SeedArgs(profiles, heartbeats) :
       /\ river_job = (1 :> JobRow("transcode", a, MaxAttempts))
       /\ uuid_job_mapping = {MappingRow(a, 1)}
       /\ job_id_seq = 1

Init ==
  /\ InitQueue({ProfilePreview}, {Nil})
  /\ webhook_job = <<>>
  /\ call = [c \in Calls |-> NoCall]
  /\ w = Idle
  /\ Started

InitWorker ==
  /\ InitQueue({ProfilePreview, ProfileFast1080p30}, {Nil, "H"})
  /\ webhook_job = <<>>
  /\ call = [c \in Calls |-> NoCall]
  /\ w = Idle
  /\ Started

\* One attempt of a job, without the ticks of its transcode.
Attempt ==
  \/ \E j \in JobIds : JobFetch(j)
  \/ Work
  \/ \E err \in TranscodeErrors \cup {Nil} : TranscodeReturns(err)
  \/ WorkReturns
  \/ enqueueWebhookBegin
  \/ enqueueWebhookInsert
  \/ enqueueWebhookComplete
  \/ enqueueWebhookCommit
  \/ JobFinish
  \/ \E j \in JobIds : JobRetry(j)

\* The server's submissions and the worker's attempts.
Next ==
  \/ \E c \in Calls : CreateTranscode(c)
  \/ \E c \in Calls : CheckExisting(c)
  \/ \E c \in Calls : InsertJob(c)
  \/ \E c \in Calls : InsertMapping(c)
  \/ \E c \in Calls : Commit(c)
  \/ Attempt

Spec == Init /\ [][Next]_vars

\* The worker alone, on the jobs the queue holds, with the ticks of the
\* transcode, the clock and the worker process stopping.
NextWorker ==
  \/ Attempt
  \/ AdvanceClock
  \/ \E p \in ProgressValues : progressCallback(p)
  \/ ContextCancelled
  \/ WorkerStops
  \/ \E j \in JobIds : JobRescue(j)

SpecWorker == InitWorker /\ [][NextWorker]_vars

\* Transcode jobs with a completion webhook, as the notifications need one:
\* with and without a heartbeat webhook, without a token, with a URI that
\* does not parse (CreateTranscode stores the URIs as they come).
DeliverySeeds ==
  LET a == [uuid |-> "u1", sourcePath |-> "s", destinationPath |-> "d1",
            profile |-> ProfileFast1080p30, webhookURI |-> "W",
            webhookToken |-> "T", heartbeatWebhookURI |-> Nil] IN
    { a,
      [a EXCEPT !.heartbeatWebhookURI = "H"],
      [a EXCEPT !.webhookToken = Unset],
      [a EXCEPT !.webhookURI = MalformedURI] }

InitDelivery ==
  /\ \E a \in DeliverySeeds :
       /\ river_job = (1 :> JobRow("transcode", a, MaxAttempts))
       /\ uuid_job_mapping = {MappingRow(a, 1)}
       /\ job_id_seq = 1
  /\ webhook_job = <<>>
  /\ call = [c \in Calls |-> NoCall]
  /\ w = Idle
  /\ Started

\* The worker process on jobs with notifications: the transcode attempts
\* that enqueue them and the deliveries.
NextDelivery ==
  \/ \E j \in JobIds : JobFetch(j)
  \/ Work
  \/ \E p \in ProgressValues : progressCallback(p)
  \/ \E err \in TranscodeErrors \cup {Nil} : TranscodeReturns(err)
  \/ enqueueWebhookBegin
  \/ enqueueWebhookInsert
  \/ enqueueWebhookComplete
  \/ enqueueWebhookCommit
  \/ JobFinish
  \/ \E j \in JobIds : JobRetry(j)
  \/ \E i \in 1..Len(webhook_job) : WebhookFetch(i)
  \/ WebhookWork
  \/ WebhookFinish
  \/ \E i \in 1..Len(webhook_job) : WebhookRetry(i)

SpecDelivery == InitDelivery /\ [][NextDelivery]_vars

\* rivertype.JobState: the lifecycle states of a River job.
RiverStates ==
  {"available", "cancelled", "completed", "discarded", "pending", "retryable",
   "running", "scheduled"}

\* A state value that is none of them.
Unrecognized == "unrecognized"

\* Outputs a transcode job's row can hold: none, a progress, an error status.
StatusOutputs ==
  {NoOutput, TranscodeJobStatus(ProgressStep, Nil),
   TranscodeJobStatus(ProgressStep, "ffmpeg failed")}

\* Attempt errors a row can hold, oldest first.
StatusErrors == {<<>>, <<"rescued">>, <<"rescued", "transcoding failed">>}

\* What River's table can hold for a job CreateTranscode inserted: any
\* lifecycle state, with an output and attempt errors; or nothing at all.
InitStatus ==
  /\ \/ /\ river_job = NoJobs
        /\ uuid_job_mapping = {}
        /\ job_id_seq = 0
     \/ \E a \in SeedArgs({ProfilePreview}, {Nil}) :
          \E s \in RiverStates \cup {Unrecognized} :
            \E o \in StatusOutputs : \E es \in StatusErrors :
              /\ river_job =
                   (1 :> [JobRow("transcode", a, MaxAttempts) EXCEPT
                            !.state = s, !.output = o, !.errors = es,
                            !.attempt = Len(es)])
              /\ uuid_job_mapping = {MappingRow(a, 1)}
              /\ job_id_seq = 1
  /\ webhook_job = <<>>
  /\ call = [c \in Calls |-> NoCall]
  /\ w = Idle
  /\ Started

\* The status queries of the server, while River reschedules failed jobs
\* and rescues those left running.
NextStatus ==
  \/ \E c \in Calls : GetStatus(c)
  \/ \E j \in JobIds : JobRetry(j)
  \/ \E j \in JobIds : JobRescue(j)

SpecStatus == InitStatus /\ [][NextStatus]_vars

\* River keeps working the queue: the return of Work is recorded, an
\* available webhook job is fetched when the worker is free, a failed one is
\* rescheduled; the request of a delivery ends, by the client's timeout at
\* the latest.
FairnessDelivery ==
  /\ WF_vars(JobFinish)
  /\ WF_vars(\E i \in 1..Len(webhook_job) : WebhookFetch(i))
  /\ WF_vars(WebhookWork)
  /\ WF_vars(WebhookFinish)
  /\ WF_vars(\E i \in 1..Len(webhook_job) : WebhookRetry(i))

SpecDeliveryFair == InitDelivery /\ [][NextDelivery]_vars /\ FairnessDelivery

\* What River and the worker keep doing: an available job is fetched, a
\* subprocess ends, a statement of a transaction returns, Work's return is
\* recorded, a retryable job is rescheduled, a stuck job is rescued.  Neither
\* the ticks, the clock nor the stopping of the worker process is required.
Fairness ==
  /\ WF_vars(\E j \in JobIds : JobFetch(j))
  /\ WF_vars(Work)
  /\ WF_vars(\E err \in TranscodeErrors \cup {Nil} : TranscodeReturns(err))
  /\ WF_vars(WorkReturns)
  /\ WF_vars(enqueueWebhookBegin)
  /\ WF_vars(enqueueWebhookInsert)
  /\ WF_vars(enqueueWebhookComplete)
  /\ WF_vars(enqueueWebhookCommit)
  /\ WF_vars(JobFinish)
  /\ WF_vars(\E j \in JobIds : JobRetry(j))
  /\ WF_vars(\E j \in JobIds : JobRescue(j))

SpecWorkerFair == InitWorker /\ [][NextWorker]_vars /\ Fairness

\* ------------------------------------------------------------------ claims

\* The calls for identifier u that were answered 201.
AcceptedCalls(u) ==
  {c \in Calls : call[c].resp.code = 201 /\ call[c].body.uuid = u}

\* C1: for each identifier, at most one Create call is accepted, and every
\* reachable state holds at most one queue job and at most one mapping row for it,
\* whatever the interleaving of the calls' transactions.
C1_AtMostOnePerIdentifier ==
  \A u \in UUIDs :
    /\ Cardinality(AcceptedCalls(u)) <= 1
    /\ Cardinality(TranscodeJobsOf(u)) <= 1
    /\ Cardinality(MappingRowsOf(u)) <= 1

\* Two calls with one identifier both passed the existence check; one was
\* accepted, the other failed on the key of the mapping table.
C1_Witness ==
  \E c, d \in Calls :
    /\ c # d
    /\ call[c].body.uuid = call[d].body.uuid
    /\ call[c].resp.code = 201
    /\ call[d].resp.cause = "duplicate key"

\* C2 (as claimed): a Create call that is rejected for a reason other than an
\* invalid request or an infrastructure error - its identifier is taken - is
\* answered 409 DUPLICATE_UUID, never 500 INTERNAL_ERROR.
C2_DuplicateIsConflict ==
  \A c \in Calls :
    ( /\ call[c].pc = "done"
      /\ call[c].resp.code \notin {201, 400}
      /\ call[c].resp.cause # "error" )
    => call[c].resp.code = 409

\* C3: a call whose existence check finds a mapping row for its identifier is
\* answered 409 in that step, and the step changes no queue job, no mapping row
\* and not the answer of GetTranscodeStatus for the identifier.
C3_ConflictLeavesNoTrace ==
  [][\A c \in Calls :
       ( /\ call[c].pc = "begun"
         /\ MappingRowsOf(call[c].body.uuid) # {}
         /\ call'[c] # call[c]
         /\ call'[c].resp.cause # "error" )
       => /\ call'[c].pc = "done"
          /\ call'[c].resp.code = 409
          /\ call'[c].resp.tag = "DUPLICATE_UUID"
          /\ UNCHANGED <<river_job, webhook_job, uuid_job_mapping>>
          /\ GetTranscodeStatus(call[c].body.uuid)' =
               GetTranscodeStatus(call[c].body.uuid)]_vars

\* A call was answered 409 for an identifier whose job has completed and was
\* submitted with another destination path; GetTranscodeStatus reports that job.
C3_Witness ==
  \E c \in Calls : \E j \in TranscodeJobsOf(call[c].body.uuid) :
    /\ call[c].resp.code = 409
    /\ river_job[j].state = "completed"
    /\ river_job[j].args.destinationPath # call[c].body.destinationPath
    /\ GetTranscodeStatus(call[c].body.uuid).destinationPath =
         river_job[j].args.destinationPath

\* In the committed database a queue job for an identifier exists exactly if
\* its mapping row exists, and the row names that job.
JobIffMapping ==
  /\ \A u \in UUIDs : (TranscodeJobsOf(u) # {}) <=> (MappingRowsOf(u) # {})
  /\ \A m \in uuid_job_mapping : m.river_job_id \in TranscodeJobsOf(m.uuid)

\* A step that answers a call with 201 adds exactly one queue job, for the
\* call's identifier, available and not yet attempted, and the answer is
\* Pending with progress 0; a step that answers no call with 201 adds no job.
AcceptAddsOnePendingJob ==
  /\ \A c \in Calls :
       (call'[c].resp.code = 201 /\ call[c].resp.code # 201)
       => /\ \E j \in JobIds' \ JobIds :
               /\ JobIds' = JobIds \cup {j}
               /\ river_job'[j].state = "available"
               /\ river_job'[j].attempt = 0
               /\ river_job'[j].args.uuid = call[c].body.uuid
          /\ \A j \in JobIds : river_job'[j] = river_job[j]
          /\ call'[c].resp.status = "pending"
          /\ call'[c].resp.progress = 0
  /\ (\A c \in Calls : call'[c].resp.code = 201 => call[c].resp.code = 201)
       => JobIds' = JobIds /\ uuid_job_mapping' = uuid_job_mapping

\* C4: Create is all-or-nothing - whatever step of a call fails, a queue job
\* for an identifier exists exactly if its mapping row exists - and a successful
\* call adds exactly one pending queue job and answers Pending, progress 0.
C4_CreateAllOrNothing == []JobIffMapping /\ [][AcceptAddsOnePendingJob]_vars

\* One call was accepted and another failed after it had inserted its queue job.
C4_Witness ==
  \E c, d \in Calls :
    /\ call[c].resp.code = 201
    /\ call[d].resp.code = 500
    /\ Cardinality(JobIds) < job_id_seq

\* C5: a call whose profile is not recognized is answered 400 INVALID_PROFILE
\* without a transaction having been opened, and its step leaves the queue and
\* the mapping table as they were.
C5_InvalidProfileRejected ==
  /\ [](\A c \in Calls :
          (call[c].pc # "idle" /\ call[c].body # NilBody
             /\ call[c].body.profile # ProfilePreview)
          => /\ call[c].pc = "done"
             /\ call[c].resp.code = 400
             /\ call[c].resp.tag = "INVALID_PROFILE"
             /\ ~call[c].began
             /\ call[c].txJob = 0)
  /\ [][\A c \in Calls :
          (call[c].pc = "idle" /\ call'[c].body # NilBody
             /\ call'[c].body.profile # ProfilePreview)
          => UNCHANGED <<river_job, webhook_job, uuid_job_mapping, job_id_seq>>]_vars

\* A call with an unrecognized profile has been answered.
C5_Witness ==
  \E c \in Calls :
    /\ call[c].body.profile = "bogus"
    /\ call[c].resp.tag = "INVALID_PROFILE"
    /\ JobIds # {}

\* The terminal (non-heartbeat) notification jobs enqueued for identifier u.
TerminalNotifications(u) ==
  {i \in 1..Len(webhook_job) :
     ~webhook_job[i].args.isHeartbeat /\ webhook_job[i].args.uuid = u}

\* The recorded output is a final status: an error, or the final progress.
IsFinalStatus(output) ==
  output.set /\ (output.error # Nil \/ output.progress = FinalProgress)

Terminal(j) == river_job[j].state \in {"completed", "discarded"}

\* C6 (as claimed): for a job with a completion webhook, in every reachable
\* state the final status record is persisted, the terminal notification is
\* enqueued and the job is marked complete - all three or none of them.
C6_FinalizationAtomic ==
  \A j \in JobIds :
    river_job[j].args.webhookURI # Nil
    => /\ IsFinalStatus(river_job[j].output)
            <=> (TerminalNotifications(river_job[j].args.uuid) # {})
       /\ (TerminalNotifications(river_job[j].args.uuid) # {})
            <=> (river_job[j].state = "completed")

\* For a job with a completion webhook: at most one terminal notification,
\* and one exactly if the job is completed.
OneNotificationIffCompleted ==
  \A j \in JobIds :
    river_job[j].args.webhookURI # Nil
    => /\ Cardinality(TerminalNotifications(river_job[j].args.uuid)) <= 1
       /\ (TerminalNotifications(river_job[j].args.uuid) # {})
            <=> (river_job[j].state = "completed")

\* A terminal notification appears in exactly the steps in which the commit
\* of the completion transaction marks the job complete, and a completed job
\* is never attempted again.
NotifiedWithCompletion ==
  \A j \in JobIds :
    /\ river_job[j].args.webhookURI # Nil
       => ( (TerminalNotifications(river_job[j].args.uuid)' #
               TerminalNotifications(river_job[j].args.uuid))
            <=> ( /\ w.job = j
                  /\ w.pc = "tx completed"
                  /\ river_job[j].state = "running"
                  /\ river_job'[j].state = "completed" ) )
    /\ river_job[j].state = "completed"
       => /\ river_job'[j].state = "completed"
          /\ river_job'[j].attempt = river_job[j].attempt

\* C7: over all attempts, failures, stops and retries of a job with a
\* completion webhook, at most one terminal notification is enqueued, one is
\* enqueued exactly if the job was marked complete, by the same commit, and a
\* committed completion is never followed by another attempt.
C7_OneNotificationWithCompletion ==
  []OneNotificationIffCompleted /\ [][NotifiedWithCompletion]_vars

\* A job with a completion webhook was completed on its second attempt, after
\* the completion transaction of the first had failed: one notification.
C7_Witness ==
  \E j \in JobIds :
    /\ river_job[j].args.webhookURI # Nil
    /\ river_job[j].state = "completed"
    /\ river_job[j].attempt = 2
    /\ "failed to enqueue webhook" \in {river_job[j].errors[i] : i \in DOMAIN river_job[j].errors}
    /\ Cardinality(TerminalNotifications(river_job[j].args.uuid)) = 1

\* C8 (as claimed): when the transcode of a job with a completion webhook has
\* failed, the terminal notification carries the error string and
\* GetTranscodeStatus reports Failed with that error string.
C8_FailureReportedFailed ==
  \A i \in 1..Len(webhook_job) :
    (~webhook_job[i].args.isHeartbeat /\ webhook_job[i].args.status.error # Nil)
    => /\ GetTranscodeStatus(webhook_job[i].args.uuid).status = "failed"
       /\ GetTranscodeStatus(webhook_job[i].args.uuid).error =
            webhook_job[i].args.status.error

\* The transcode of an attempt has failed somewhere in the past of job j, as
\* far as the job row and the notifications show it.
ShowsTranscodeFailure(j) ==
  \/ river_job[j].output.error # Nil
  \/ \E i \in TerminalNotifications(river_job[j].args.uuid) :
       webhook_job[i].args.status.error # Nil
  \/ "transcoding failed" \in {river_job[j].errors[i] : i \in DOMAIN river_job[j].errors}

\* C9 (as claimed, its final result): a job whose transcode has failed is, once
\* terminal, recorded with the error, and notified with it if a completion
\* webhook is configured.
C9_FailureCapturedAtEnd ==
  \A j \in JobIds :
    (Terminal(j) /\ ShowsTranscodeFailure(j))
    => /\ river_job[j].output.error \in TranscodeErrors
       /\ river_job[j].args.webhookURI # Nil
          => \E i \in TerminalNotifications(river_job[j].args.uuid) :
               webhook_job[i].args.status.error = river_job[j].output.error

\* The step that completes job j by an attempt whose transcode succeeded
\* leaves GetTranscodeStatus answering Completed, progress 100, no error.
SuccessReportsCompleted ==
  \A j \in JobIds :
    ( /\ river_job[j].state # "completed"
      /\ river_job'[j].state = "completed"
      /\ w.job = j
      /\ w.status.error = Nil )
    => /\ GetTranscodeStatus(river_job[j].args.uuid)'.status = "completed"
       /\ GetTranscodeStatus(river_job[j].args.uuid)'.progress = 100
       /\ GetTranscodeStatus(river_job[j].args.uuid)'.error = Nil

\* The row of a completed job does not change any more.
CompletedIsFinal ==
  \A j \in JobIds : river_job[j].state = "completed" => river_job'[j] = river_job[j]

\* C10 (as claimed): once a job is complete by an attempt whose transcode succeeded,
\* GetTranscodeStatus reports Completed, progress 100 and no error, whatever
\* ticks were dropped before, whatever earlier attempts failed, with or without
\* webhooks.
C10_SuccessReportsCompleted ==
  [][SuccessReportsCompleted]_vars /\ [][CompletedIsFinal]_vars

\* A step in which progressCallback handles a tick of the running transcode.
TickStep == w.pc # "idle" /\ w'.pc = w.pc /\ w'.tick # w.tick

\* The heartbeat notification rows.
Heartbeats == {i \in 1..Len(webhook_job) : webhook_job[i].args.isHeartbeat}

\* The step is a committed heartbeat transaction for progress p: one heartbeat
\* row carrying p is added and the output of the job is p.
HeartbeatCommitted(p) ==
  /\ webhook_job' = Append(webhook_job,
       JobRow("webhook", HeartbeatArgs(args, TranscodeJobStatus(p, Nil)), 1))
  /\ river_job' = [river_job EXCEPT ![w.job].output = TranscodeJobStatus(p, Nil)]

\* The first tick of an execution with a heartbeat webhook runs the heartbeat
\* transaction whatever time has elapsed: the throttle acts, nothing is
\* recorded by the plain write, and one heartbeat is enqueued if the
\* transaction commits, none (and the flag stays unset) if it fails.
FirstTickSendsHeartbeat ==
  (TickStep /\ w.tick = 0 /\ args.heartbeatWebhookURI # Nil)
  => /\ w'.since = 0
     /\ w'.lastProgress = w'.tick
     /\ w'.ctxOutput = w.ctxOutput
     /\ \/ HeartbeatCommitted(w'.tick) /\ w'.firstHeartbeatSent
        \/ UNCHANGED <<webhook_job, river_job>> /\ ~w'.firstHeartbeatSent

\* C11: with a heartbeat webhook configured the first progress tick causes
\* exactly one heartbeat notification to be enqueued, whatever time has elapsed
\* since the worker started, less than 30 seconds included.
C11_FirstTickSendsHeartbeat == [][FirstTickSendsHeartbeat]_vars

\* The first tick has enqueued the one heartbeat of the job, and no time has
\* passed since.
C11_Witness ==
  /\ w.pc = "transcoding"
  /\ args.heartbeatWebhookURI # Nil
  /\ w.firstHeartbeatSent
  /\ w.tick = ProgressStep
  /\ w.since = 0
  /\ Cardinality(Heartbeats) = 1
  /\ river_job[w.job].attempt = 1
  /\ river_job[w.job].output = TranscodeJobStatus(w.tick, Nil)

\* The heartbeat notification rows of identifier u.
HeartbeatsOf(u) == {i \in Heartbeats : webhook_job[i].args.uuid = u}

ThrottledHeartbeat ==
  /\ Heartbeats' # Heartbeats
     => /\ TickStep
        /\ Cardinality(Heartbeats') = Cardinality(Heartbeats) + 1
        /\ w'.firstHeartbeatSent
        /\ w'.since = 0
        /\ w.firstHeartbeatSent => w.since >= updateInterval
  /\ (TickStep /\ w.firstHeartbeatSent) => w'.firstHeartbeatSent

ThrottleActs ==
  \/ w.since >= updateInterval
  \/ args.heartbeatWebhookURI # Nil /\ ~w.firstHeartbeatSent

\* A tick on which the throttle acts restarts the interval and remembers the
\* progress, and records it (plain write without a heartbeat webhook, heartbeat
\* transaction with one); any other tick changes nothing but the position in
\* the stream of ticks.
ThrottleDecides ==
  TickStep
  => IF ThrottleActs
     THEN /\ w'.since = 0
          /\ w'.lastProgress = w'.tick
          /\ IF args.heartbeatWebhookURI = Nil
             THEN /\ w'.ctxOutput = TranscodeJobStatus(w'.tick, Nil)
                  /\ UNCHANGED <<river_job, webhook_job>>
             ELSE /\ w'.ctxOutput = w.ctxOutput
                  /\ \/ HeartbeatCommitted(w'.tick)
                     \/ UNCHANGED <<river_job, webhook_job>>
     ELSE /\ UNCHANGED <<river_job, webhook_job>>
          /\ w' = [w EXCEPT !.tick = w'.tick]

HeartbeatMatchesOutput ==
  (w.pc = "transcoding" /\ args.heartbeatWebhookURI # Nil)
  => /\ w.ctxOutput = NoOutput
     /\ river_job[w.job].state = "running"
     /\ w.firstHeartbeatSent
        => /\ webhook_job # <<>>
           /\ webhook_job[Len(webhook_job)].args.isHeartbeat
           /\ webhook_job[Len(webhook_job)].max_attempts = 1
           /\ webhook_job[Len(webhook_job)].args.status = river_job[w.job].output

\* An acting tick of a job with a heartbeat webhook: the output update and the
\* heartbeat row both happen or neither does, the job stays running and the
\* plain write is not used.
HeartbeatTickAtomic ==
  (TickStep /\ args.heartbeatWebhookURI # Nil /\ ThrottleActs)
  => /\ \/ HeartbeatCommitted(w'.tick)
        \/ UNCHANGED <<river_job, webhook_job>>
     /\ river_job'[w.job].state = "running"
     /\ river_job'[w.job].attempt = river_job[w.job].attempt
     /\ w'.ctxOutput = w.ctxOutput

\* C14: with a heartbeat webhook configured every acting tick performs one
\* transaction that updates the progress output and enqueues one heartbeat,
\* both or neither; it never completes the job, and the plain progress write
\* is never used for the ticks of that job.
C14_HeartbeatTickAtomic == []HeartbeatMatchesOutput /\ [][HeartbeatTickAtomic]_vars

\* Two acting ticks of one execution: two heartbeats, the job still running
\* with the second tick's progress as its output.
C14_Witness ==
  /\ w.pc = "transcoding"
  /\ args.heartbeatWebhookURI # Nil
  /\ river_job[w.job].attempt = 1
  /\ river_job[w.job].state = "running"
  /\ Cardinality(HeartbeatsOf(args.uuid)) = 2
  /\ river_job[w.job].output = TranscodeJobStatus(2 * ProgressStep, Nil)
  /\ w.ctxOutput = NoOutput

\* Work has recorded the final status of the execution.
FinalStatusRecorded ==
  w.pc \in AfterTranscode \cup {"tx completed"} \/ (w.pc = "returned" /\ w.status.set)

\* After the final status is recorded, the execution records no progress and
\* enqueues no heartbeat.
NothingAfterFinalStatus ==
  (FinalStatusRecorded /\ w'.pc # "idle")
  => /\ Heartbeats' = Heartbeats
     /\ w'.ctxOutput = w.ctxOutput
     /\ river_job'[w.job].output \in {river_job[w.job].output, w.ctxOutput}

\* The recorded output of a completed job is a final status.
CompletedOutputIsFinal ==
  \A j \in JobIds :
    river_job[j].state = "completed" => IsFinalStatus(river_job[j].output)

\* C15 (as claimed): the final status write comes after every progress write
\* and every heartbeat enqueue of the job, so that the recorded output of a
\* job the worker has completed is its final status, for both transcoders.
C15_FinalWriteIsLast ==
  []CompletedOutputIsFinal /\ [][NothingAfterFinalStatus]_vars

\* The final status Work records when Transcode returns carries the true
\* final progress: 100 for a finished transcode, the value of the last tick
\* received for a failed one.
FinalValueRecorded ==
  (w.pc = "transcoding" /\ w'.pc \in {"recorded", "enqueue"})
  => w'.ctxOutput.progress =
       IF w'.ctxOutput.error = Nil THEN FinalProgress ELSE w.tick

\* C16 (as claimed): for ticks strictly increasing in time and value the last
\* value persisted for the job at completion is the value of the final tick,
\* whatever the throttle dropped, on the success path and on the failure path.
C16_FinalValueIsLastTick == [][FinalValueRecorded]_vars

\* C17 (as claimed): a cancellation of the worker's context while a transcode
\* is in flight leaves no error status in the job's record and no terminal
\* notification on its account.
C17_CancellationLeavesNoTrace ==
  \A j \in JobIds :
    /\ river_job[j].output.error # Killed
    /\ \A i \in TerminalNotifications(river_job[j].args.uuid) :
         webhook_job[i].args.status.error # Killed

\* The attempt errors that come from the infrastructure: the completion
\* transaction failed, or the worker was gone and the job was rescued.
InfrastructureErrors == {"failed to enqueue webhook", "rescued"}

\* Job j waits for a retry because its last attempt ended with an
\* infrastructure error.
WaitsAfterInfrastructureError(j) ==
  /\ river_job[j].state \in {"retryable", "available"}
  /\ river_job[j].errors # <<>>
  /\ river_job[j].errors[Len(river_job[j].errors)] \in InfrastructureErrors

\* C18: an infrastructure error is never written into the recorded status of a
\* job, and a job that waits for a retry because of one is reported Pending or
\* Running, never Failed, and without that error.
C18_InfrastructureErrorNotInStatus ==
  \A j \in JobIds :
    /\ river_job[j].output.error \notin InfrastructureErrors
    /\ WaitsAfterInfrastructureError(j)
       => /\ GetTranscodeStatus(river_job[j].args.uuid).status \in {"pending", "running"}
          /\ GetTranscodeStatus(river_job[j].args.uuid).error \notin InfrastructureErrors

\* A job waits for its retry after the completion transaction of its first
\* attempt failed, and is reported Pending.
C18_Witness ==
  \E j \in JobIds :
    /\ river_job[j].state = "retryable"
    /\ river_job[j].errors = <<"failed to enqueue webhook">>
    /\ GetTranscodeStatus(river_job[j].args.uuid).status = "pending"

\* The positions of Work inside enqueueWebhook.
InEnqueueWebhook == {"enqueue", "tx begun", "tx inserted", "tx completed"}

\* enqueueWebhook ends without having completed the job: nothing of the
\* transaction is committed and Work returns the enqueue error, which is not
\* the error of a failed transcode.
FailedEnqueueReturnsError ==
  ( /\ w.pc \in InEnqueueWebhook
    /\ w'.pc = "returned"
    /\ river_job'[w.job].state # "completed" )
  => /\ UNCHANGED <<river_job, webhook_job>>
     /\ w'.ret = "failed to enqueue webhook"
     /\ w'.ret # "transcoding failed"

\* River records the enqueue error: the job is not completed but retryable
\* (discarded when its attempts are used up), and no notification is added.
FailedEnqueueIsRetried ==
  (w.pc = "returned" /\ w.ret = "failed to enqueue webhook" /\ w'.pc = "idle")
  => /\ webhook_job' = webhook_job
     /\ river_job'[w.job].errors = Append(river_job[w.job].errors, w.ret)
     /\ river_job'[w.job].state =
          IF river_job[w.job].attempt < river_job[w.job].max_attempts
          THEN "retryable" ELSE "discarded"

\* The next execution of a job starts Work from its beginning: no position and
\* no recorded status of the failed execution is kept.
RetryStartsAfresh ==
  (w.pc = "idle" /\ w'.pc # "idle")
  => w' = [Idle EXCEPT !.pc = "work", !.job = w'.job]

\* C19: when a step of the completion transaction fails nothing of it is
\* committed, Work returns an enqueue error distinct from the transcode error,
\* the job is not marked complete, and River's retry of the job attempts the
\* whole finalization again.
C19_FailedEnqueueRetried ==
  /\ [][FailedEnqueueReturnsError]_vars
  /\ [][FailedEnqueueIsRetried]_vars
  /\ [][RetryStartsAfresh]_vars

\* The second execution of a job has begun the completion transaction again
\* after the transaction of the first execution had failed.
C19_Witness ==
  /\ w.pc = "tx begun"
  /\ river_job[w.job].attempt = 2
  /\ river_job[w.job].state = "running"
  /\ river_job[w.job].errors = <<"failed to enqueue webhook">>
  /\ TerminalNotifications(args.uuid) = {}

\* No terminal notification exists for a job without a completion webhook.
NoNotificationWithoutWebhook ==
  \A j \in JobIds :
    river_job[j].args.webhookURI = Nil
    => TerminalNotifications(river_job[j].args.uuid) = {}

\* River records the end of an execution of a job without a completion
\* webhook: the final status of the execution is persisted, the job is
\* completed after a finished transcode and retried or discarded after a failed
\* one, and nothing is enqueued.
PlainFinalization ==
  ( /\ w.pc = "returned"
    /\ w'.pc = "idle"
    /\ w.status.set
    /\ args.webhookURI = Nil )
  => /\ river_job'[w.job].output = w.status
     /\ river_job'[w.job].state =
          IF w.status.error = Nil THEN "completed"
          ELSE IF river_job[w.job].attempt < river_job[w.job].max_attempts
               THEN "retryable" ELSE "discarded"
     /\ webhook_job' = webhook_job

\* C20 (as claimed): for a job without a completion webhook, after a finished
\* and after a failed transcode the final status record is persisted and the
\* job is finished by River's own completion, and no terminal notification is
\* ever enqueued for it.
C20_PlainCompletion ==
  []NoNotificationWithoutWebhook /\ [][PlainFinalization]_vars

\* The attempt of a webhook job that Work has returned from.
Delivered == w.pc = "delivered"

\* Work returns nil exactly for a response with a status code in 200..299.
SuccessIsStatus2xx == Delivered => (w.ret = Nil <=> w.resp \in 200..299)

\* River records a nil return as the completion of the webhook job and any
\* error as a failed attempt.
OutcomeRecorded ==
  [][Delivered /\ w'.pc = "idle"
       => LET old == webhook_job[w.job]
              new == webhook_job'[w.job] IN
            IF w.resp \in 200..299
            THEN new.state = "completed" /\ new.errors = old.errors
            ELSE /\ new.state \in {"retryable", "discarded"}
                 /\ new.errors = Append(old.errors, w.ret)]_vars

\* C21: a delivery attempt succeeds if and only if the request completes with
\* a status code in 200..299; any other status code, a transport failure and
\* a request that cannot be constructed are failures of that attempt.
C21_SuccessIffStatus2xx == []SuccessIsStatus2xx /\ OutcomeRecorded

\* Work has returned an error for a response with status 300, and for a
\* response below 200 it has done so on an earlier attempt.
C21_Witness ==
  /\ Delivered /\ w.resp = 300 /\ w.ret = StatusError(300)
  /\ webhook_job[w.job].errors = <<StatusError(101)>>

\* The terminal notifications in the queue.
Terminals == {i \in 1..Len(webhook_job) : ~webhook_job[i].args.isHeartbeat}

\* A heartbeat job is fetched once at most, and a failed one is discarded.
HeartbeatAttemptedOnce ==
  \A i \in Heartbeats :
    /\ webhook_job[i].attempt <= 1
    /\ webhook_job[i].errors # <<>> => webhook_job[i].state = "discarded"

\* A terminal job whose attempt failed waits for the next attempt unless the
\* attempt was the last of the default limit.
TerminalRetriedWithinLimit ==
  \A i \in Terminals :
    /\ webhook_job[i].attempt <= MaxAttempts
    /\ webhook_job[i].state = "discarded" => webhook_job[i].attempt = MaxAttempts
    /\ webhook_job[i].state = "completed"
         => Len(webhook_job[i].errors) = webhook_job[i].attempt - 1

\* A terminal job is delivered or has used up its attempts.
TerminalSettled ==
  \A i \in Terminals :
    \/ webhook_job[i].state = "completed"
    \/ /\ webhook_job[i].state = "discarded"
       /\ Len(webhook_job[i].errors) = MaxAttempts

\* C22: a heartbeat notification is attempted once at most and never again
\* after a failed attempt; a terminal notification is attempted again after
\* each failure until an attempt succeeds or the default attempt limit is
\* used up.
C22_HeartbeatOnceTerminalRetried ==
  /\ [](HeartbeatAttemptedOnce /\ TerminalRetriedWithinLimit)
  /\ (Terminals # {}) ~> TerminalSettled

\* A heartbeat was discarded after its one failed attempt, and the terminal
\* notification was delivered on the attempt after a failed one.
C22_Witness ==
  /\ \E i \in Heartbeats :
       webhook_job[i].state = "discarded" /\ webhook_job[i].attempt = 1
  /\ \E i \in Terminals :
       /\ webhook_job[i].state = "completed"
       /\ webhook_job[i].attempt = 2

\* The request of the attempt Work has returned from was posted.
Posted == Delivered /\ w.req # NoPayload

\* The token a receiver reads from a payload: no bytes when the field is
\* omitted.
ReceivedToken(payload) == IF payload.token = Nil THEN Unset ELSE payload.token

\* The posted payload against the webhook job it was built from and the
\* transcode job that is its subject.
PayloadAsSubmitted ==
  Posted =>
    LET a == webhook_job[w.job].args IN
      /\ TranscodeJobsOf(a.uuid) # {}
      /\ \A j \in TranscodeJobsOf(a.uuid) :
           /\ w.req.uuid = river_job[j].args.uuid
           /\ ReceivedToken(w.req) = river_job[j].args.webhookToken
      /\ w.req.hasProgress <=> a.isHeartbeat
      /\ w.req.hasProgress => w.req.progress = a.status.progress
      /\ w.req.error = a.status.error
      /\ w.req.error # Nil => ~a.isHeartbeat /\ w.req.error \in TranscodeErrors
      /\ (~a.isHeartbeat /\ a.status.error = Nil)
           => w.req.error = Nil /\ ~w.req.hasProgress

\* C23: a webhook payload carries the token and the identifier of the
\* subject job's submission; progress is present exactly in heartbeats;
\* error is present only when the status captured at enqueue time carries the
\* error of a failed transcode, so the terminal notification of a successful
\* job has neither error nor progress.
C23_PayloadAsSubmitted == PayloadAsSubmitted

\* The terminal notification of a failed job was posted with its error and
\* without progress, after a heartbeat with progress had been attempted.
C23_Witness ==
  /\ Posted
  /\ ~webhook_job[w.job].args.isHeartbeat
  /\ w.req.error \in TranscodeErrors /\ ~w.req.hasProgress
  /\ w.req.token = "T"
  /\ \E i \in Heartbeats : webhook_job[i].attempt = 1

\* A step of a delivery: a webhook job is fetched, worked, recorded or
\* rescheduled.
DeliveryStep ==
  \/ w.pc \in {"deliver", "delivered"} /\ w' # w
  \/ w.pc = "idle" /\ w'.pc = "deliver"
  \/ Len(webhook_job') = Len(webhook_job) /\ webhook_job' # webhook_job

\* No step of a delivery touches a transcode job, the mapping, or what
\* GetTranscodeStatus answers.
DeliveryLeavesSubject ==
  [][DeliveryStep
       => /\ UNCHANGED <<river_job, uuid_job_mapping>>
          /\ \A u \in UUIDs : GetTranscodeStatus(u)' = GetTranscodeStatus(u)]_vars

\* C24: the failure of a notification's delivery, and the exhaustion of its
\* attempts, never change the subject job's queue state, its output or its
\* projected status.
C24_DeliveryLeavesSubject == DeliveryLeavesSubject

\* The terminal notification of a successful job was given up after its
\* last attempt failed.
C24_Witness ==
  \E i \in Terminals :
    /\ webhook_job[i].state = "discarded"
    /\ Len(webhook_job[i].errors) = MaxAttempts
    /\ webhook_job[i].args.status.error = Nil
    /\ GetTranscodeStatus(webhook_job[i].args.uuid).status = "completed"

\* The status queries that were answered 200.
Answered == {c \in Calls : call[c].pc = "answered" /\ call[c].resp.code = 200}

\* The status each lifecycle state is reported as.
Projection ==
  [s \in RiverStates |->
     IF s \in {"available", "scheduled", "retryable", "pending"} THEN "pending"
     ELSE IF s = "running" THEN "running"
     ELSE IF s = "completed" THEN "completed"
     ELSE "failed"]

\* C25: the status of an answer is one of pending, running, completed and
\* failed: pending for available, scheduled, retryable and pending, running
\* for running, completed for completed, failed for discarded and cancelled,
\* and pending for a state that is none of these.
C25_ProjectionOfState ==
  \A c \in Answered :
    LET state == call[c].job.state IN
      /\ call[c].resp.status \in {"pending", "running", "completed", "failed"}
      /\ state \in RiverStates => call[c].resp.status = Projection[state]
      /\ state \notin RiverStates => call[c].resp.status = "pending"

\* A cancelled job was reported as failed.
C25_Witness ==
  \E c \in Answered :
    /\ call[c].job.state = "cancelled"
    /\ call[c].resp.status = "failed"

\* The error an answer must carry for the job row it was made from.
ErrorToReport(job, status) ==
  IF job.output.error # Nil THEN job.output.error
  ELSE IF status = "failed" /\ job.errors # <<>>
       THEN job.errors[Len(job.errors)]
       ELSE Nil

\* C26: the error of an answer is the error of the job's recorded output when
\* there is one; otherwise, exactly when the reported status is failed and
\* the job has attempt errors, the most recent attempt error; otherwise none.
C26_ErrorReported ==
  \A c \in Answered :
    LET job == call[c].job IN
      /\ call[c].resp.error = ErrorToReport(job, call[c].resp.status)
      /\ (job.output.error = Nil /\ call[c].resp.error # Nil)
           <=> (job.output.error = Nil /\ call[c].resp.status = "failed"
                /\ job.errors # <<>>)

\* A discarded job without an output error was reported with the later of
\* its two attempt errors.
C26_Witness ==
  \E c \in Answered :
    LET job == call[c].job IN
      /\ job.state = "discarded" /\ job.output.error = Nil
      /\ job.errors = <<"rescued", "transcoding failed">>
      /\ call[c].resp.error = "transcoding failed"

\* A status query is answered in this step.
StatusAnswered == \E c \in Calls : call[c].pc = "idle" /\ call'[c].pc = "answered"

\* Answering a status query writes nothing.
GetStatusReadOnly ==
  [][StatusAnswered
       => UNCHANGED <<river_job, webhook_job, uuid_job_mapping, job_id_seq, w>>]_vars

\* The status queries whose reads succeeded.
Projected == {c \in Calls : call[c].pc = "answered" /\ call[c].resp.code # 500}

\* Two queries for one identifier that read the same job row were given the
\* same answer.
GetStatusIdempotent ==
  \A c, d \in Projected :
    (call[c].body.uuid = call[d].body.uuid /\ call[c].job = call[d].job)
      => call[c].resp = call[d].resp

\* C27: a status query changes no job, no mapping row and no recorded output,
\* and two queries for one identifier with no change in between are answered
\* identically.
C27_GetStatusReadOnlyIdempotent == GetStatusReadOnly /\ []GetStatusIdempotent

\* Two queries for the identifier of a job with an error status were both
\* answered with it, the job as it was.
C27_Witness ==
  /\ Projected = Calls
  /\ \A c \in Calls :
       /\ call[c].resp.code = 200
       /\ call[c].resp.error = "ffmpeg failed"
       /\ call[c].job = JobOf(call[c].body.uuid)

\* The mapping table changes only in the step that answers a call 201, which
\* adds one row for the call's identifier and leaves every other row as it is.
MappingWrittenOnce ==
  uuid_job_mapping' # uuid_job_mapping
    => \E c \in Calls :
         /\ call[c].resp.code # 201 /\ call'[c].resp.code = 201
         /\ MappingRowsOf(call[c].body.uuid) = {}
         /\ \E m \in uuid_job_mapping' :
              /\ m.uuid = call[c].body.uuid
              /\ uuid_job_mapping' = uuid_job_mapping \cup {m}

\* An identifier that has a mapping row keeps it, and the row keeps naming the
\* job that carries the identifier.
ResolvesToSameJob ==
  \A m \in uuid_job_mapping :
    /\ m \in uuid_job_mapping'
    /\ m.river_job_id \in JobIds'
    /\ river_job'[m.river_job_id].args = river_job[m.river_job_id].args
    /\ river_job'[m.river_job_id].args.uuid = m.uuid

\* GetTranscodeStatus answers NotFound exactly for the identifiers without a
\* mapping row, and every accepted call's identifier has its one row.
NotFoundIffNotCreated ==
  \A u \in UUIDs :
    /\ GetTranscodeStatus(u) = NotFound <=> MappingRowsOf(u) = {}
    /\ AcceptedCalls(u) # {} => Cardinality(MappingRowsOf(u)) = 1

\* C28: the mapping row of an identifier is written once, by the Create call
\* that is accepted, and is never updated or deleted; so GetTranscodeStatus
\* answers NotFound exactly for the identifiers no committed Create carries,
\* and a created identifier always resolves to the same queue job.
C28_MappingWrittenOnce ==
  /\ [][MappingWrittenOnce /\ ResolvesToSameJob]_vars
  /\ []NotFoundIffNotCreated

\* The job of an accepted call has been worked on and is still what the
\* call's identifier resolves to, while another identifier is not found.
C28_Witness ==
  /\ \E c \in Calls :
       /\ call[c].resp.code = 201
       /\ GetTranscodeStatus(call[c].body.uuid).code = 200
       /\ \E j \in TranscodeJobsOf(call[c].body.uuid) : river_job[j].attempt > 0
  /\ \E u \in UUIDs : GetTranscodeStatus(u) = NotFound

\* The job of every accepted call carries the call's profile, a recognized one.
AcceptedJobCarriesProfile ==
  \A c \in Calls :
    call[c].resp.code = 201
      => \A j \in TranscodeJobsOf(call[c].body.uuid) :
           /\ river_job[j].args.profile = call[c].body.profile
           /\ IsValid(river_job[j].args.profile)

\* Work has not ended in the panic of NewTranscoder.
NoInvalidProfilePanic == ~(w.pc = "returned" /\ w.ret = "panic: invalid profile")

\* C29 (as claimed): every job an accepted Create call inserted carries the
\* validated profile of the submission in its arguments, and the worker's
\* selection of a transcoder never reaches the branch for an unrecognized
\* profile.
C29_AcceptedJobCarriesProfile == AcceptedJobCarriesProfile /\ NoInvalidProfilePanic

\* The port variables, and the variables in the order NewConfigFromEnv reads
\* them.
PortVars == {EnvServerPort, EnvDatabasePort}

ReadOrder ==
  <<EnvServerPort, EnvDatabaseHost, EnvDatabasePort, EnvDatabaseUser,
    EnvDatabasePassword, EnvDatabaseName>>

\* NewConfigFromEnv has been called.
Loaded == config # NotLoaded

Missing(k) == ~environ[k].set

NotAnInteger(k) == k \in PortVars /\ environ[k].set /\ Atoi(environ[k].value).err

\* The configuration holds the values of the six variables and nothing else.
ExactConfig ==
  /\ config.panic = Nil
  /\ config.Server.Port = Atoi(environ[EnvServerPort].value).value
  /\ environ[EnvServerPort].value = <<"8", "0">> => config.Server.Port = 80
  /\ environ[EnvServerPort].value = <<"-", "1">> => config.Server.Port = 0 - 1
  /\ config.Database.Port = Atoi(environ[EnvDatabasePort].value).value
  /\ config.Database.Host = environ[EnvDatabaseHost].value
  /\ config.Database.User = environ[EnvDatabaseUser].value
  /\ config.Database.Password = environ[EnvDatabasePassword].value
  /\ config.Database.Name = environ[EnvDatabaseName].value

\* C30 (as claimed): the configuration is returned with exactly the values
\* when every variable is set and the ports are integers; the panic is the
\* not-set error when any variable is missing, and the not-an-integer error
\* when a port is not an integer.
C30_LoadConfigAsClaimed ==
  Loaded =>
    /\ (\A k \in EnvVars : ~Missing(k) /\ ~NotAnInteger(k)) => ExactConfig
    /\ (\E k \in EnvVars : Missing(k)) => config.panic = ErrPanicEnvNotSet
    /\ (\E k \in EnvVars : NotAnInteger(k)) => config.panic = ErrPanicEnvNotInt

\* The position in the reading order of the first variable that is missing
\* or not an integer; 0 when there is none.
FirstFailure ==
  LET bad == {i \in 1..Len(ReadOrder) :
                Missing(ReadOrder[i]) \/ NotAnInteger(ReadOrder[i])}
  IN IF bad = {} THEN 0 ELSE CHOOSE i \in bad : \A k \in bad : i <= k

\* C30 (amended): the configuration is returned with exactly the values when
\* every variable is set and the ports are integers; otherwise the call
\* panics, and returns no configuration, with the error of the first
\* variable in reading order that is missing or not an integer: not-set if
\* it is missing, not-an-integer if it is a port that is not an integer.
C30_LoadConfigFirstFailure ==
  Loaded =>
    IF FirstFailure = 0 THEN ExactConfig
    ELSE /\ DOMAIN config = {"panic", "key"}
         /\ config.key = ReadOrder[FirstFailure]
         /\ config.panic = IF Missing(ReadOrder[FirstFailure])
                           THEN ErrPanicEnvNotSet ELSE ErrPanicEnvNotInt

\* The server port is not an integer and the database host is missing: the
\* call panicked with the not-an-integer error of the port.
C30_Witness ==
  /\ Loaded
  /\ NotAnInteger(EnvServerPort) /\ Missing(EnvDatabaseHost)
  /\ config.panic = ErrPanicEnvNotInt /\ config.key = EnvServerPort

\* The step enqueues a heartbeat although the interval has not elapsed since
\* the last action: the immediate heartbeat.
ImmediateHeartbeat ==
  /\ w.job \in JobIds
  /\ Heartbeats' # Heartbeats
  /\ w.since < updateInterval

\* C31 (as claimed): the immediate heartbeat is sent only when no heartbeat
\* has ever been enqueued for the job, the earlier executions of the job
\* counted: a job that is retried gets no second immediate heartbeat.
C31_OneImmediateHeartbeatPerJob ==
  [][ImmediateHeartbeat => HeartbeatsOf(args.uuid) = {}]_vars

\* The callback's tick is one the claim has recorded: the interval has
\* elapsed since the last update, or the value differs from the last
\* recorded one.
TickToRecord ==
  /\ TickStep
  /\ args.heartbeatWebhookURI = Nil
  /\ w.since >= updateInterval \/ w'.tick # w.lastProgress

\* C32 (as claimed): for a job without a heartbeat webhook a progress update
\* is recorded when 30 seconds have elapsed since the last update or when the
\* progress value has changed since the last recorded value.
C32_RecordedOnIntervalOrChange ==
  [][TickToRecord => w'.ctxOutput = TranscodeJobStatus(w'.tick, Nil)]_vars

\* The tick runs the heartbeat transaction: a heartbeat webhook is configured
\* and the interval has elapsed or no heartbeat of this execution was enqueued.
HeartbeatAttempted ==
  /\ TickStep
  /\ args.heartbeatWebhookURI # Nil
  /\ w.since >= updateInterval \/ ~w.firstHeartbeatSent

\* The attempted transaction failed: no heartbeat row was added.
HeartbeatFailed == HeartbeatAttempted /\ Len(webhook_job') = Len(webhook_job)

\* A failed heartbeat transaction commits nothing (neither the row nor the
\* output of the job), leaves the job running with the result it had, and
\* leaves the first-heartbeat flag as it was.
FailedHeartbeatLeavesJob ==
  HeartbeatFailed
  => /\ UNCHANGED <<river_job, webhook_job>>
     /\ w'.job = w.job /\ w'.pc = w.pc
     /\ w'.ret = w.ret /\ w'.status = w.status /\ w'.ctxOutput = w.ctxOutput
     /\ w'.firstHeartbeatSent = w.firstHeartbeatSent

\* While the flag is unset the next tick runs the transaction again, whatever
\* time has elapsed: it commits a heartbeat for the tick's value or fails.
UnsentHeartbeatAttemptedAgain ==
  (TickStep /\ args.heartbeatWebhookURI # Nil /\ ~w.firstHeartbeatSent)
  => \/ HeartbeatCommitted(w'.tick) /\ w'.firstHeartbeatSent
     \/ HeartbeatFailed /\ ~w'.firstHeartbeatSent

\* C33: a failure of the heartbeat transaction never fails, completes or
\* aborts the transcode job and commits nothing of the transaction; while no
\* heartbeat has been enqueued successfully the next progress tick attempts
\* the heartbeat again.
C33_HeartbeatFailureTolerated ==
  [][FailedHeartbeatLeavesJob /\ UnsentHeartbeatAttemptedAgain]_vars

\* A heartbeat transaction failed on the first tick and the second tick's
\* transaction committed: the job runs on with one heartbeat, for the second
\* value.
C33_Witness ==
  /\ w.pc = "transcoding"
  /\ args.heartbeatWebhookURI # Nil
  /\ river_job[w.job].attempt = 1
  /\ w.tick = 2 * ProgressStep
  /\ w.firstHeartbeatSent
  /\ \E i \in HeartbeatsOf(args.uuid) :
       /\ HeartbeatsOf(args.uuid) = {i}
       /\ webhook_job[i].args.status.progress = 2 * ProgressStep

\* The tick's progress record was persisted: the heartbeat transaction
\* committed it, or, without a heartbeat webhook, RecordOutput took it.
TickPersisted ==
  IF args.heartbeatWebhookURI # Nil
  THEN HeartbeatCommitted(w'.tick)
  ELSE w'.ctxOutput = TranscodeJobStatus(w'.tick, Nil)

\* C34 (as claimed): the throttle's last-acted progress and timestamp change
\* only when a progress record was persisted, so the last-acted progress, and
\* with it the progress of a failure status, is a persisted value.
C34_ThrottleFollowsPersisted ==
  [][(TickStep /\ (w'.lastProgress # w.lastProgress \/ w'.since # w.since))
       => TickPersisted]_vars

\* progressCallback handles a tick only while Transcode has not returned to
\* Work.
CallbackWithinTranscode == TickStep => w.pc = "transcoding"

\* C35 (as claimed): for a single transcode no invocation of the progress
\* callback starts or is still running after the transcode operation has
\* returned to the worker; the invocations come from one reader, one after
\* another.
C35_CallbackEndsWithTranscode == [][CallbackWithinTranscode]_vars

\* The braces of a text are balanced.
Balanced(text) == Count(text, OpenBrace) = Count(text, CloseBrace)

\* The text is a progress object whose state is WORKING.
IsWorking(text) == ~Unmarshal(text).err /\ Unmarshal(text).State = "WORKING"

\* The number of complete WORKING blocks of a stream: a block starts on a line
\* with the label, takes the lines that follow until its braces are balanced,
\* which they may be on its first line, and counts if its text parses and its
\* state is WORKING; lines outside a block belong to no block.
RECURSIVE WorkingBlocks(_, _, _)
WorkingBlocks(lines, inBlock, text) ==
  IF lines = <<>> THEN 0
  ELSE LET line == Head(lines)
           labelled == HasPrefix(line, ProgressLabel)
           block == IF labelled THEN TrimSpace(TrimPrefix(line, ProgressLabel))
                    ELSE text \o line
       IN IF ~labelled /\ ~inBlock THEN WorkingBlocks(Tail(lines), FALSE, <<>>)
          ELSE IF Balanced(block)
          THEN (IF IsWorking(block) THEN 1 ELSE 0)
                 + WorkingBlocks(Tail(lines), FALSE, <<>>)
          ELSE WorkingBlocks(Tail(lines), TRUE, block)

\* C36 (as claimed): when the stream has been scanned the callback has been
\* invoked exactly once for every complete WORKING block of the stream, a
\* block that is complete on its first line included, and for nothing else.
C36_OneCallPerWorkingBlock ==
  handbrake.stream = <<>>
  => Len(handbrake.calls) = WorkingBlocks(handbrake.input, FALSE, <<>>)

\* The quotient lies in [0, 100].
InPercentRange(q) ==
  IF q.den > 0 THEN 0 <= q.num /\ q.num <= 100 * q.den
  ELSE q.num <= 0 /\ q.num >= 100 * q.den

\* C37 (as claimed): the elapsed-time transcoder hands a value to the callback
\* only for a non-zero total duration, and every value it hands over, the
\* clamped quotient of elapsed and total time scaled to a percentage, lies in
\* [0, 100].
C37_ProgressWithinPercentRange ==
  ffmpeg.called => ffmpeg.totalDuration # 0 /\ InPercentRange(ffmpeg.progress)

\* The probes have completed when the ffmpeg subprocess has been started: the
\* resolution always, the duration when a callback is given.
ProbesBeforeStart ==
  ffmpeg.started
  => /\ "resolution" \in ffmpeg.probed
     /\ ffmpeg.callback => "duration" \in ffmpeg.probed

\* A probe that fails ends Transcode with the failure, the subprocess not
\* started.
ProbeFailureReturned ==
  (ffmpeg.pc \in {"start", "duration"} /\ ffmpeg' # ffmpeg
     /\ ffmpeg'.probed = ffmpeg.probed)
  => /\ ffmpeg'.pc = "returned"
     /\ ~ffmpeg'.started
     /\ ffmpeg'.err = IF ffmpeg.pc = "start" THEN Err.probeVideo ELSE Err.probeDuration

\* A non-zero exit of the subprocess is returned as an error that carries
\* the exit status.
NonZeroExitReturned ==
  (ffmpeg.pc = "returned" /\ ffmpeg.exit # 0)
  => ffmpeg.err = IF ffmpeg.callback THEN Err.ffmpegFailed ELSE Err.exit

\* No step of the transcoder removes a destination that is there.
DestinationKept == ffmpeg.destination # "absent" => ffmpeg'.destination # "absent"

\* C38: the resolution probe and, when a callback is given, the duration
\* probe complete before the ffmpeg subprocess is started; a failed probe is
\* returned as the error of the transcode and the subprocess is never started;
\* a non-zero exit of the subprocess is returned as an error with its
\* diagnostic; the transcoder never deletes the destination.
C38_ProbesThenSubprocess ==
  /\ [](ProbesBeforeStart /\ NonZeroExitReturned)
  /\ [][ProbeFailureReturned /\ DestinationKept]_vars

\* Both probes done, the subprocess has exited with a non-zero status and
\* Transcode has returned the error, a partly written destination left behind.
C38_Witness ==
  /\ ffmpeg.pc = "returned"
  /\ ffmpeg.probed = {"resolution", "duration"}
  /\ ffmpeg.started
  /\ ffmpeg.exit = 1
  /\ ffmpeg.err = Err.ffmpegFailed
  /\ ffmpeg.destination = "partial"

\* The target width is even, not smaller than the derived width and less
\* than 2 above it, the derived width being the quotient n / d.
EvenAtOrAbove(width, n, d) ==
  /\ width % 2 = 0
  /\ width * d >= n
  /\ width * d - n < 2 * d

\* The scale has been computed for the probed resolution.
Scaled ==
  /\ ffmpeg.pc \in {"running", "returned"}
  /\ ffmpeg.err \notin {Err.probeVideo, Err.probeDuration}

\* C39 (as claimed): for a source of positive width and height the target
\* height is 240 and the target width is the even number that is not smaller
\* than source width times 240 divided by source height and exceeds it by less
\* than 2.
C39_WidthRoundedUpToEven ==
  Scaled => /\ targetHeight = 240
            /\ EvenAtOrAbove(ffmpeg.targetWidth, ffmpeg.width * 240, ffmpeg.height)

\* C39 (amended): the same with the derived width being the integer quotient
\* of source width times 240 and source height, the fraction dropped.
C39_TruncatedWidthRoundedUpToEven ==
  Scaled => /\ targetHeight = 240
            /\ EvenAtOrAbove(ffmpeg.targetWidth,
                             (ffmpeg.width * 240) \div ffmpeg.height, 1)

\* A source of 3 x 720: the derived width 1 is odd and the target width is 2.
C39_Witness ==
  /\ Scaled
  /\ ffmpeg.width = 3 /\ ffmpeg.height = 720
  /\ ffmpeg.targetWidth = 2

\* At most one process executes migration steps at a time.
OneMigratesAtATime ==
  Cardinality({p \in Procs : migration.pc[p] = "migrating"}) <= 1

\* A run that has returned holds the advisory lock no longer.
ReturnedRunHoldsNoLock ==
  \A p \in Procs : migration.pc[p] = "returned" => migration.lock.proc # p

\* C40 (as claimed): when several processes migrate concurrently on pooled
\* connections at most one executes migration steps at a time, and on every
\* return path the advisory lock a run has acquired is released, so that no
\* finished run keeps a later one waiting.
C40_ExclusiveAndReleased == OneMigratesAtATime /\ ReturnedRunHoldsNoLock

====
